---- MODULE Spec2Model ----
(***************************************************************************)
(* Model of rmlib's socket layer (include/rmlib/socket.h): the            *)
(* socket::status_t classification, and socket_t with its OS handle,      *)
(* TLS session, reference count and connection state machine.             *)
(*                                                                         *)
(* The operating system and the TLS engine are the environment: every     *)
(* call into them draws its outcome from the outcomes that call can have  *)
(* on the descriptor it is given (a call on an invalid descriptor fails   *)
(* with EBADF, accept on a descriptor that is not listening fails with    *)
(* EINVAL, socket() returns the lowest free descriptor).  Memory          *)
(* allocation (new unsigned, SSL_new) is assumed to succeed.              *)
(*                                                                         *)
(* Each method of socket_t is an operator from a world (all objects, the  *)
(* heap of reference counts, the descriptor table, the TLS sessions, the  *)
(* uid counter) to a world and a status; an action applies one public     *)
(* method to one object and records what it returned in `last`.  Record   *)
(* constructors list their fields in one fixed order throughout, the      *)
(* order in which the names first appear in the module.                   *)
(*                                                                         *)
(* Specifications:                                                         *)
(*   Spec        connect, disconnect, listen, accept, send, recv on a      *)
(*               client socket, with accept's out_socket                   *)
(*   WaitSpec    connect, disconnect and wait_event                        *)
(*   StatusSpec  the constructors of socket::status_t, clear() and         *)
(*               reason() over bounded inputs                              *)
(*   OwnSpec     copies of a socket: copy construction, copy assignment,   *)
(*               disconnect and destruction                                *)
(*   MoveSpec    moves of a socket next to copies                          *)
(*   RaceSpec    two threads that each copy or destroy one of the objects  *)
(*               sharing a handle, a memory access at a time               *)
(*   UidSpec     two threads that connect and disconnect different sockets *)
(*   ContextSpec the constructors of tls::context_t                        *)
(*   SendMsgSpec the echo client's loop send_msg() over send()             *)
(*   BaseSpec    rmlib::status_t of status.h: construct, assign, reset,    *)
(*               clear                                                     *)
(*   AddressSpec ip::address_resolution of a "host:port" string            *)
(*   FileSpec    file_t of fileio.h: open, close, write and read of one    *)
(*               file                                                      *)
(*   RetrySpec   send_msg() a statement at a time over a connection that   *)
(*               stays reset, every statement weakly fair                  *)
(*   IoSpec      connect, disconnect, send, recv and wait_event            *)
(*   LifeSpec    tls::context_t objects: construction, moves, destruction  *)
(*   VerifySpec  connect, disconnect and verify_peer_certificate           *)
(*   SpinSpec    spin_lock_t and spin_guard_t of utility.h under threads   *)
(***************************************************************************)
EXTENDS Integers, FiniteSets, Sequences, TLC

(***************************************************************************)
(* Bounds                                                                  *)
(***************************************************************************)
MaxHandles == 2      \* descriptors the process may hold open
MaxUid == 3          \* public operations stop once the uid counter passes it
MaxLen == 2          \* longest buffer handed to send / recv
MaxMsg == 3          \* longest message handed to send_msg
MaxUrl == 4          \* longest "host:port" string handed to address_resolution
MaxFile == 3         \* longest file; write() is not called past it
MaxWait == 1         \* longest finite timeout handed to wait_event, in ms
MaxCtx == 3          \* SSL_CTX objects the engine can allocate
MaxSpin == 3         \* threads that use the one spin_lock_t

\* SSL_get_verify_result: X509_V_OK, and any of the error results
X509_V_OK == 0
X509_V_ERR == 1

(***************************************************************************)
(* Program constants                                                       *)
(***************************************************************************)
INVALID_SOCKET == -1
SOCKET_ERROR == -1
WSAEWOULDBLOCK == 11
WSAECONNREFUSED == 111
WSAEINVAL == 22
WSAEALREADY == 114
WSAENOTCONN == 107
EBADF == 9
EMFILE == 24
ECONNRESET == 104
SSL_ERROR_NONE == 0
SSL_ERROR_SSL == 1
SSL_ERROR_WANT_READ == 2
SSL_ERROR_WANT_WRITE == 3
SSL_ERROR_SYSCALL == 5
SSL_ERROR_ZERO_RETURN == 6
EINTR == 4
ENOMEM == 12
ENOENT == 2
OK == 0                         \* rmlib::status::OK
NOTOK == -1                     \* rmlib::status::NOTOK
INVALID_HANDLE_VALUE == -1
ENOSPC == 28
EEXIST == 17
SOCKET_WAIT_FOREVER == -1
SOCKET_WAIT_NEVER == 0
ERR_REASON_SPAN == 8388608      \* 2^23: the reason is the low 23 bits
CERT_VERIFY_FAILED == 167772294 \* 0x0A000086, an entry of the error queue

Null == 0
NoTls == -1                     \* no TLS engine call was made
ObjIds == {"s", "c"}            \* the socket_t objects of the program
Callers == {"s"}                \* the object the program calls methods on;
                                \* "c" is the out_socket it passes to accept
Local == "local"                \* the local socket_t of tcp_accept
Copies == ObjIds \cup {"d"}     \* the objects of the program with two threads
Slots == Copies \cup {Local}
Threads == {1, 2}
Handles == 1..MaxHandles
Cells == 1..(Cardinality(ObjIds) + 1)
Sessions == 1..(Cardinality(ObjIds) + 1)
TheCtx == 1                     \* the SSL_CTX of the one tls::context_t

StaleReads == {1, 2}            \* what a read of a freed reference count can
                                \* find: the 1 close() tests for, or another
                                \* value

VARIABLES obj, heap, fds, ssl, counter, last, live, stale, thread, issued, loop,
          file, contexts, spin
vars == <<obj, heap, fds, ssl, counter, last, live, stale, thread, issued,
          loop, file, contexts, spin>>

(***************************************************************************)
(* socket::status_t                                                        *)
(***************************************************************************)
Status(e, c) == [error_ |-> e, ctx_ |-> 0, code_ |-> c]

status_default == Status(0, "none")

\* status_t(int, hint) that takes the hint as the code also for error 0
status_int_nozero(error, hint, lasterr) ==
   LET viaErrno == (error = SOCKET_ERROR)
       e == IF viaErrno THEN lasterr ELSE error
       c0 == hint
       c1 == IF viaErrno THEN "io" ELSE c0
       c2 == IF e = WSAEWOULDBLOCK /\ hint # "io" THEN hint ELSE c1
       c3 == IF e = 0 /\ hint = "closing" THEN hint ELSE c2
   IN Status(e, c3)

\* status_t(int, hint) without the rule for the would-block error
status_int_nowouldblock(error, hint, lasterr) ==
   LET viaErrno == (error = SOCKET_ERROR)
       e == IF viaErrno THEN lasterr ELSE error
       c0 == IF error = 0 THEN "none" ELSE hint
       c1 == IF viaErrno THEN "io" ELSE c0
       c3 == IF e = 0 /\ hint = "closing" THEN hint ELSE c1
   IN Status(e, c3)

\* status_t(int, hint) without the rule for the closing hint
status_int_noclosing(error, hint, lasterr) ==
   LET viaErrno == (error = SOCKET_ERROR)
       e == IF viaErrno THEN lasterr ELSE error
       c0 == IF error = 0 THEN "none" ELSE hint
       c1 == IF viaErrno THEN "io" ELSE c0
       c2 == IF e = WSAEWOULDBLOCK /\ hint # "io" THEN hint ELSE c1
   IN Status(e, c2)

\* status_t(int error, status_code_t hint); lasterr is WSAGetLastError()
status_int(error, hint, lasterr) ==
   LET viaErrno == (error = SOCKET_ERROR)
       e == IF viaErrno THEN lasterr ELSE error
       c0 == IF error = 0 THEN "none" ELSE hint
       c1 == IF viaErrno THEN "io" ELSE c0
       c2 == IF e = WSAEWOULDBLOCK /\ hint # "io" THEN hint ELSE c1
       c3 == IF e = 0 /\ hint = "closing" THEN hint ELSE c2
   IN Status(e, c3)

\* status_t(const SSL*, int ret); sslerr is SSL_get_error(ssl, ret).
\* In the SYSCALL and default branches the source builds a status_t that is
\* discarded, so *this keeps error_ = sslerr and the default code_ none.
status_ssl(sslerr) ==
   CASE sslerr = SSL_ERROR_NONE        -> Status(0, "none")
     [] sslerr = SSL_ERROR_ZERO_RETURN -> Status(sslerr, "closing")
     [] sslerr = SSL_ERROR_WANT_READ   -> Status(sslerr, "want_read")
     [] sslerr = SSL_ERROR_WANT_WRITE  -> Status(sslerr, "want_write")
     [] sslerr = SSL_ERROR_SYSCALL     -> Status(sslerr, "none")
     [] OTHER                          -> Status(sslerr, "none")

\* ERR_GET_REASON(e)
ERR_GET_REASON(e) == e % ERR_REASON_SPAN

\* explicit status_t(status_code_t); queue is ERR_peek_last_error()
status_ctx(queue) ==
   IF queue # 0
   THEN [error_ |-> ERR_GET_REASON(queue), ctx_ |-> queue, code_ |-> "fatal"]
   ELSE [error_ |-> 0, ctx_ |-> queue, code_ |-> "none"]

\* clear()
clear(st) == [error_ |-> 0, ctx_ |-> 0, code_ |-> "none"]

\* strerror_s(text, size, error): the text of an OS error
strerror_s(e) ==
   CASE e = 0               -> "Success"
     [] e = EINTR           -> "Interrupted system call"
     [] e = EBADF           -> "Bad file descriptor"
     [] e = WSAEWOULDBLOCK  -> "Resource temporarily unavailable"
     [] e = ENOMEM          -> "Cannot allocate memory"
     [] e = WSAEINVAL       -> "Invalid argument"
     [] e = EMFILE          -> "Too many open files"
     [] e = ECONNRESET      -> "Connection reset by peer"
     [] e = WSAENOTCONN     -> "Transport endpoint is not connected"
     [] e = WSAECONNREFUSED -> "Connection refused"
     [] e = WSAEALREADY     -> "Operation already in progress"
     [] OTHER               -> "Unknown error"

\* ERR_error_string_n(ctx, buffer, size): the text of a queue entry
ERR_error_string_n(e) ==
   CASE e = 0                  -> "error:00000000:lib(0)::reason(0)"
     [] e = CERT_VERIFY_FAILED -> "error:0A000086:SSL routines::certificate verify failed"
     [] OTHER                  -> "error:unknown"

\* reason()
reason(st) ==
   IF st.code_ = "fatal" THEN ERR_error_string_n(st.ctx_)
   ELSE IF st.code_ # "none" THEN strerror_s(st.error_)
   ELSE "No errors detected"

ok(st) == st.code_ = "none"
nok(st) == ~ok(st)
would_block(st) == st.code_ = "want_read" \/ st.code_ = "want_write"
want_read(st) == st.code_ = "want_read"

(***************************************************************************)
(* The world the methods act on                                            *)
(***************************************************************************)
World == [obj |-> obj, heap |-> heap, fds |-> fds, ssl |-> ssl,
          counter |-> counter, stale |-> stale, calls |-> {}, fails |-> {},
          tls |-> NoTls]

\* a socket_t whose constructor already holds a session of its context
socket_t_eager(ctx, cell) ==
   [ctx_ |-> ctx, handle_ |-> INVALID_SOCKET,
    ssl_ |-> IF ctx # Null THEN 1 ELSE Null, uid_ |-> 0,
    mode_ |-> "blocking", state_ |-> "idle", ref_count_ |-> cell]

\* a socket_t as its constructors leave it; cell is the new unsigned(1)
socket_t(ctx, cell) ==
   [ctx_ |-> ctx, handle_ |-> INVALID_SOCKET, ssl_ |-> Null, uid_ |-> 0,
    mode_ |-> "blocking", state_ |-> "idle", ref_count_ |-> cell]

\* the slot of the local socket_t of tcp_accept outside tcp_accept
NoObject == socket_t(Null, Null)

Log(w, call, failed) ==
   [w EXCEPT !.calls = @ \cup {call},
             !.fails = IF failed THEN @ \cup {call} ELSE @]

FreeHandles(w) == {h \in Handles : w.fds[h] = "closed"}
FreeSessions(w) == {x \in Sessions : w.ssl[x] = "free"}
FreeCells(w) == {c \in Cells : w.heap[c] = 0}
Lowest(S) == CHOOSE x \in S : \A y \in S : x <= y

\* *ref_count_ read through the pointer c: a cell that was deleted gives
\* whatever its memory holds now
Deref(w, c) == IF w.heap[c] = 0 THEN w.stale ELSE w.heap[c]

\* *ref_count_ = v written through the pointer c: a write into a cell that
\* was deleted changes no reference count
Assign(w, c, v) == IF w.heap[c] = 0 THEN w ELSE [w EXCEPT !.heap[c] = v]

(***************************************************************************)
(* tls::context_t: [ctx_, status_] with the newest entry of the engine's  *)
(* error queue (0 when the queue is empty), whether the SSL_CTX made by   *)
(* SSL_CTX_new is still allocated, and the engine calls made and failed.  *)
(* A call's outcome is [done, push]: whether it succeeded and the entry   *)
(* it left in the error queue (0 when it left none).                      *)
(***************************************************************************)
NoFile == ""                    \* a null const char* for a file name

\* context_t(): the default constructor
context_default(queue) ==
   [ctx_ |-> Null, queue |-> queue, calls |-> {}, fails |-> {},
    status_ |-> status_default, held |-> FALSE]

\* status_ = status_t(status_code_t::fatal) after a call that left push in
\* the error queue; the constructor of status_t empties the queue
set_fatal(c, push) ==
   [c EXCEPT !.status_ = status_ctx(IF push # 0 THEN push ELSE c.queue),
             !.queue = 0]

\* one call into the engine: it cannot succeed on a null SSL_CTX
ctx_call(c, name, out) ==
   [c EXCEPT !.calls = @ \cup {name},
             !.fails = IF out.done /\ (c.ctx_ # Null \/ name = "SSL_CTX_new")
                       THEN @ ELSE @ \cup {name}]

\* allocate_context(type)
allocate_context(c, out) ==
   LET after(c1) ==
          IF "SSL_CTX_new" \in c1.fails
          THEN set_fatal([c1 EXCEPT !.ctx_ = Null], out.push)
          ELSE [c1 EXCEPT !.ctx_ = TheCtx, !.held = TRUE]
   IN after(ctx_call(c, "SSL_CTX_new", out))

\* free_context()
free_context(c) ==
   IF c.ctx_ # Null THEN [c EXCEPT !.ctx_ = Null, !.held = FALSE] ELSE c

\* set_certificate(cert_pem_file)
set_certificate(c, cert_pem_file, out) ==
   LET after(c1) ==
          IF "SSL_CTX_use_certificate_file" \in c1.fails
          THEN set_fatal(c1, out.push) ELSE c1
   IN IF ok(c.status_) /\ cert_pem_file # NoFile
      THEN after(ctx_call(c, "SSL_CTX_use_certificate_file", out))
      ELSE c

\* set_private_key(key_pem_file)
set_private_key(c, key_pem_file, out) ==
   LET after(c1) ==
          IF "SSL_CTX_use_PrivateKey_file" \in c1.fails
          THEN set_fatal(c1, out.push) ELSE c1
   IN IF ok(c.status_) /\ key_pem_file # NoFile
      THEN after(ctx_call(c, "SSL_CTX_use_PrivateKey_file", out))
      ELSE c

\* context_t::create(type, cert_pem_file, key_pem_file) on an object whose
\* members have their default values; env gives the outcomes of the calls
context_create(queue, cert_pem_file, key_pem_file, env) ==
   LET fin(c) == IF nok(c.status_) THEN free_context(c) ELSE c
       keyed(c) == fin(set_private_key(c, key_pem_file, env.key))
       certified(c) == keyed(set_certificate(c, cert_pem_file, env.cert))
       cleared(c) == [c EXCEPT !.status_ = clear(c.status_)]
   IN certified(allocate_context(cleared(context_default(queue)), env.alloc))

(***************************************************************************)
(* Operating system calls: [w, ret, errno]                                 *)
(***************************************************************************)
\* ::socket(): the lowest free descriptor, or INVALID_SOCKET
os_socket(w, succeed) ==
   IF succeed /\ FreeHandles(w) # {}
   THEN LET h == Lowest(FreeHandles(w)) IN
        [w |-> Log([w EXCEPT !.fds[h] = "open"], "socket", FALSE),
         ret |-> h, errno |-> 0]
   ELSE [w |-> Log(w, "socket", TRUE), ret |-> INVALID_SOCKET, errno |-> EMFILE]

\* ::connect()
os_connect(w, h, succeed) ==
   IF h \notin Handles \/ w.fds[h] = "closed"
   THEN [w |-> Log(w, "connect", TRUE), ret |-> SOCKET_ERROR, errno |-> EBADF]
   ELSE IF succeed /\ w.fds[h] = "open"
   THEN [w |-> Log([w EXCEPT !.fds[h] = "connected"], "connect", FALSE),
         ret |-> 0, errno |-> 0]
   ELSE [w |-> Log(w, "connect", TRUE), ret |-> SOCKET_ERROR,
         errno |-> WSAECONNREFUSED]

\* ::ioctl(FIONBIO)
os_ioctl(w, h, succeed) ==
   IF h \notin Handles \/ w.fds[h] = "closed"
   THEN [w |-> Log(w, "ioctl", TRUE), ret |-> SOCKET_ERROR, errno |-> EBADF]
   ELSE IF succeed
   THEN [w |-> Log(w, "ioctl", FALSE), ret |-> 0, errno |-> 0]
   ELSE [w |-> Log(w, "ioctl", TRUE), ret |-> SOCKET_ERROR, errno |-> WSAEINVAL]

\* ::close() of a descriptor
os_closesocket(w, h) ==
   IF h \notin Handles \/ w.fds[h] = "closed"
   THEN [w |-> Log(w, "closesocket", TRUE), ret |-> SOCKET_ERROR, errno |-> EBADF]
   ELSE [w |-> Log([w EXCEPT !.fds[h] = "closed"], "closesocket", FALSE),
         ret |-> 0, errno |-> 0]

\* ::bind()
os_bind(w, h, succeed) ==
   IF h \notin Handles \/ w.fds[h] = "closed"
   THEN [w |-> Log(w, "bind", TRUE), ret |-> SOCKET_ERROR, errno |-> EBADF]
   ELSE IF succeed /\ w.fds[h] = "open"
   THEN [w |-> Log([w EXCEPT !.fds[h] = "bound"], "bind", FALSE),
         ret |-> 0, errno |-> 0]
   ELSE [w |-> Log(w, "bind", TRUE), ret |-> SOCKET_ERROR, errno |-> WSAEINVAL]

\* ::listen()
os_listen(w, h, succeed) ==
   IF h \notin Handles \/ w.fds[h] = "closed"
   THEN [w |-> Log(w, "listen", TRUE), ret |-> SOCKET_ERROR, errno |-> EBADF]
   ELSE IF succeed /\ w.fds[h] \in {"bound", "listening"}
   THEN [w |-> Log([w EXCEPT !.fds[h] = "listening"], "listen", FALSE),
         ret |-> 0, errno |-> 0]
   ELSE [w |-> Log(w, "listen", TRUE), ret |-> SOCKET_ERROR, errno |-> WSAEINVAL]

\* ::accept(): pending says whether a connection waits in the backlog
os_accept(w, h, pending) ==
   IF h \notin Handles \/ w.fds[h] = "closed"
   THEN [w |-> Log(w, "accept", TRUE), ret |-> INVALID_SOCKET, errno |-> EBADF]
   ELSE IF w.fds[h] # "listening"
   THEN [w |-> Log(w, "accept", TRUE), ret |-> INVALID_SOCKET, errno |-> WSAEINVAL]
   ELSE IF ~pending
   THEN [w |-> Log(w, "accept", TRUE), ret |-> INVALID_SOCKET,
         errno |-> WSAEWOULDBLOCK]
   ELSE IF FreeHandles(w) = {}
   THEN [w |-> Log(w, "accept", TRUE), ret |-> INVALID_SOCKET, errno |-> EMFILE]
   ELSE LET n == Lowest(FreeHandles(w)) IN
        [w |-> Log([w EXCEPT !.fds[n] = "connected"], "accept", FALSE),
         ret |-> n, errno |-> 0]

\* ::shutdown()
os_shutdown(w, h, succeed) ==
   IF h \notin Handles \/ w.fds[h] = "closed"
   THEN [w |-> Log(w, "shutdown", TRUE), ret |-> SOCKET_ERROR, errno |-> EBADF]
   ELSE IF succeed /\ w.fds[h] = "connected"
   THEN [w |-> Log(w, "shutdown", FALSE), ret |-> 0, errno |-> 0]
   ELSE [w |-> Log(w, "shutdown", TRUE), ret |-> SOCKET_ERROR,
         errno |-> WSAENOTCONN]

\* ::send() of n bytes: out > 0 is the number of bytes taken, otherwise
\* the call fails with errno -out
os_send(w, h, n, out) ==
   IF h \notin Handles \/ w.fds[h] = "closed"
   THEN [w |-> Log(w, "send", TRUE), ret |-> SOCKET_ERROR, errno |-> EBADF]
   ELSE IF out > 0
   THEN [w |-> Log(w, "send", FALSE), ret |-> out, errno |-> 0]
   ELSE [w |-> Log(w, "send", TRUE), ret |-> SOCKET_ERROR, errno |-> -out]

\* ::recv() into n bytes: out >= 0 is the number of bytes delivered (0 when
\* the peer has closed), otherwise the call fails with errno -out
os_recv(w, h, n, out) ==
   IF h \notin Handles \/ w.fds[h] = "closed"
   THEN [w |-> Log(w, "recv", TRUE), ret |-> SOCKET_ERROR, errno |-> EBADF]
   ELSE IF out >= 0
   THEN [w |-> Log(w, "recv", FALSE), ret |-> out, errno |-> 0]
   ELSE [w |-> Log(w, "recv", TRUE), ret |-> SOCKET_ERROR, errno |-> -out]

\* WSAPoll(&fdset, 1, timeout) over the descriptor h for the requested
\* events; out is what the call reports: [ret, revents, errno]
os_poll(w, h, events, timeout, out) ==
   [w |-> Log(w, "poll", out.ret = SOCKET_ERROR), ret |-> out.ret,
    errno |-> out.errno, timeout |-> timeout, revents |-> out.revents]

\* what one poll can report.  It can fail; it can expire unless it waits
\* forever; on an open descriptor it can report any non-empty set of the
\* requested flags, hang-up and error (these two are reported whether or
\* not they were requested); a negative descriptor is ignored and a closed
\* one is reported invalid.
PollOutcomes(w, h, events, timeout) ==
   {[ret |-> SOCKET_ERROR, errno |-> e, revents |-> {}] :
       e \in {EINTR, ENOMEM}}
   \cup (IF timeout # SOCKET_WAIT_FOREVER
         THEN {[ret |-> 0, errno |-> 0, revents |-> {}]} ELSE {})
   \cup (IF h \notin Handles THEN {}
         ELSE IF w.fds[h] = "closed"
         THEN {[ret |-> 1, errno |-> 0, revents |-> {"POLLNVAL"}]}
         ELSE {[ret |-> 1, errno |-> 0, revents |-> f] :
                  f \in (SUBSET (events \cup {"POLLHUP", "POLLERR"})) \ {{}}})

\* what ::send / ::recv can do with n bytes
SendOutcomes(n) == (1..n) \cup {-WSAEWOULDBLOCK, -ECONNRESET}
RecvOutcomes(n) == (0..n) \cup {-WSAEWOULDBLOCK, -ECONNRESET}

(***************************************************************************)
(* TLS engine calls; out is the value SSL_get_error gives for the call     *)
(***************************************************************************)
\* SSL_new(ctx): a fresh session
SSL_new(w) ==
   LET made(x) ==
          [w |-> Log([w EXCEPT !.ssl[x] = "new"], "SSL_new", FALSE), ret |-> x]
   IN made(Lowest(FreeSessions(w)))

SSL_free(w, x) == Log([w EXCEPT !.ssl[x] = "free"], "SSL_free", FALSE)

\* the session x after a call that reported out
Engine(w, x, call, out, done) ==
   LET logged(w1) ==
          IF x \in Sessions /\ out = SSL_ERROR_NONE
          THEN [w1 EXCEPT !.ssl[x] = done, !.tls = out]
          ELSE [w1 EXCEPT !.tls = out]
   IN logged(Log(w, call, out \notin {SSL_ERROR_NONE, SSL_ERROR_WANT_READ,
                                      SSL_ERROR_WANT_WRITE}))

\* what one call into the engine can report: want-read and want-write only
\* on a non-blocking socket
EngineOutcomes(mode) ==
   {SSL_ERROR_NONE, SSL_ERROR_ZERO_RETURN, SSL_ERROR_SYSCALL, SSL_ERROR_SSL}
   \cup (IF mode = "nonblocking"
         THEN {SSL_ERROR_WANT_READ, SSL_ERROR_WANT_WRITE} ELSE {})

\* SSL_connect(ssl): ret > 0 exactly when the outcome is SSL_ERROR_NONE
SSL_connect(w, x, out) ==
   [w |-> Engine(w, x, "SSL_connect", out, "established"),
    ret |-> IF out = SSL_ERROR_NONE THEN 1 ELSE -1]

\* SSL_accept(ssl)
SSL_accept(w, x, out) ==
   [w |-> Engine(w, x, "SSL_accept", out, "established"),
    ret |-> IF out = SSL_ERROR_NONE THEN 1 ELSE -1]

\* SSL_shutdown(ssl): 1 when the shutdown is complete, 0 when close_notify
\* was sent and the peer's is still awaited, < 0 on error
SSL_shutdown(w, x, ret, out) ==
   [w |-> Engine(w, x, "SSL_shutdown", out, "shutdown"), ret |-> ret]

\* the (ret, SSL_get_error) pairs SSL_shutdown can give
ShutdownOutcomes(mode) ==
   {<<1, SSL_ERROR_NONE>>, <<0, SSL_ERROR_NONE>>}
   \cup {<<-1, e>> : e \in EngineOutcomes(mode) \ {SSL_ERROR_NONE}}

\* SSL_write_ex(ssl, buf, n, &written): n > 0; 1 and written = k on success
SSL_write_ex(w, x, out, k) ==
   [w |-> Engine(w, x, "SSL_write_ex", out, "established"),
    ret |-> IF out = SSL_ERROR_NONE THEN 1 ELSE 0,
    bytes |-> IF out = SSL_ERROR_NONE THEN k ELSE 0]

\* SSL_read_ex(ssl, buf, n, &readbytes)
SSL_read_ex(w, x, out, k) ==
   [w |-> Engine(w, x, "SSL_read_ex", out, "established"),
    ret |-> IF out = SSL_ERROR_NONE THEN 1 ELSE 0,
    bytes |-> IF out = SSL_ERROR_NONE THEN k ELSE 0]

(***************************************************************************)
(* socket_t private methods: [w, status]                                   *)
(***************************************************************************)
\* generate_uid(): counter.fetch_add(1)
generate_uid(w, id) ==
   [w EXCEPT !.obj[id].uid_ = w.counter, !.counter = @ + 1]

\* get_code that gives the read variant for every event
get_code_read(event) == "want_read"

\* get_code(event)
get_code(event) ==
   CASE event = "recv_ready"    -> "want_read"
     [] event = "send_ready"    -> "want_write"
     [] event = "connect_ready" -> "want_write"
     [] event = "accept_ready"  -> "want_read"
     [] OTHER                   -> "want_read"

\* set_events(event): the flags a poll for the event requests
set_events(event) ==
   IF event = "recv_ready" \/ event = "accept_ready"
   THEN {"POLLRDNORM"} ELSE {"POLLWRNORM"}

\* set_blocking(mode)
set_blocking(w, id, mode, env) ==
   LET done(r, st) ==
          [w |-> [r.w EXCEPT !.obj[id].mode_ = IF ok(st) THEN mode ELSE @],
           status |-> st]
       after(r) == done(r, status_int(r.ret, "io", r.errno))
   IN after(os_ioctl(w, w.obj[id].handle_, env.ioctl))

\* create(family) that leaves state_ as it was
create_nostate(w, id, env) ==
   LET attach(n) == [n.w EXCEPT !.obj[id].ssl_ = n.ret]
       made(w1) ==
          [w |-> [(IF w1.obj[id].ctx_ # Null THEN attach(SSL_new(w1)) ELSE w1)
                     EXCEPT !.obj[id].mode_ = "blocking"],
           status |-> status_default]
       after(r) ==
          IF r.ret = INVALID_SOCKET
          THEN [w |-> [r.w EXCEPT !.obj[id].handle_ = r.ret],
                status |-> status_int(r.errno, "io", r.errno)]
          ELSE made([r.w EXCEPT !.obj[id].handle_ = r.ret])
   IN after(os_socket(w, env.socket))

\* create(family)
create(w, id, env) ==
   LET attach(n) == [n.w EXCEPT !.obj[id].ssl_ = n.ret]
       made(w1) ==
          [w |-> [(IF w1.obj[id].ctx_ # Null THEN attach(SSL_new(w1)) ELSE w1)
                     EXCEPT !.obj[id].state_ = "created",
                            !.obj[id].mode_ = "blocking"],
           status |-> status_default]
       after(r) ==
          IF r.ret = INVALID_SOCKET
          THEN [w |-> [r.w EXCEPT !.obj[id].handle_ = r.ret],
                status |-> status_int(r.errno, "io", r.errno)]
          ELSE made([r.w EXCEPT !.obj[id].handle_ = r.ret])
   IN after(os_socket(w, env.socket))

\* close(), the branch taken when *ref_count_ == 1
release(w, id) ==
   LET s == w.obj[id]
       freed(w2, st) ==
          [w |-> [w2 EXCEPT !.heap[s.ref_count_] = 0,
                            !.obj[id].ssl_ = Null,
                            !.obj[id].ref_count_ = Null],
           status |-> st]
       unssl(w1, st) ==
          freed(IF s.ssl_ # Null THEN SSL_free(w1, s.ssl_) ELSE w1, st)
       closed(r) ==
          unssl([r.w EXCEPT !.obj[id].handle_ = INVALID_SOCKET,
                            !.obj[id].uid_ = 0,
                            !.obj[id].mode_ = "blocking",
                            !.obj[id].state_ = "idle"],
                status_int(r.ret, "io", r.errno))
   IN IF s.handle_ # INVALID_SOCKET
      THEN closed(os_closesocket(w, s.handle_))
      ELSE unssl(w, status_default)

\* close()
close(w, id) ==
   LET s == w.obj[id]
   IN IF s.ref_count_ = Null THEN [w |-> w, status |-> status_default]
      ELSE IF Deref(w, s.ref_count_) = 1 THEN release(w, id)
      ELSE [w |-> Assign(w, s.ref_count_, Deref(w, s.ref_count_) - 1),
            status |-> status_default]

\* socket_t(): the default constructor building the object in slot id
construct(w, id) ==
   LET built(c) == [w EXCEPT !.obj[id] = socket_t(Null, c), !.heap[c] = 1]
   IN built(Lowest(FreeCells(w)))

\* ~socket_t() of the object in slot id; the slot is then empty
destroy(w, id) ==
   [close(w, id).w EXCEPT !.obj[id] = NoObject]

\* socket_t(const socket_t& other): the object in slot dst built from src
copy_construct(w, dst, src) ==
   LET counted(w2, o) ==
          IF o.ref_count_ # Null
          THEN Assign(w2, o.ref_count_, Deref(w2, o.ref_count_) + 1) ELSE w2
   IN counted([w EXCEPT !.obj[dst] = w.obj[src]], w.obj[src])

\* operator=(const socket_t& other): dst = src, for dst # src
copy_assign(w, dst, src) ==
   LET counted(w2, o) ==
          IF o.ref_count_ # Null
          THEN Assign(w2, o.ref_count_, Deref(w2, o.ref_count_) + 1) ELSE w2
       copied(w1) == counted([w1 EXCEPT !.obj[dst] = w1.obj[src]], w1.obj[src])
   IN copied(close(w, dst).w)

\* socket_t(socket_t&& other) that leaves other as it was
move_construct_alias(w, dst, src) ==
   [w EXCEPT !.obj[dst] = w.obj[src]]

\* socket_t(socket_t&& other): the object in slot dst built from src
move_construct(w, dst, src) ==
   [w EXCEPT !.obj[dst] = w.obj[src], !.obj[src] = NoObject]

\* operator=(socket_t&& other): dst = std::move(src), for dst # src
move_assign(w, dst, src) ==
   LET moved(w1) == [w1 EXCEPT !.obj[dst] = w1.obj[src], !.obj[src] = NoObject]
   IN moved(close(w, dst).w)

\* tcp_connect without its checks of state_
tcp_connect_unguarded(w, id, mode, env) ==
   LET marked(w1) ==
          IF w1.obj[id].ssl_ # Null
          THEN [Log(w1, "SSL_set_fd", FALSE)
                   EXCEPT !.obj[id].state_ = "connecting"]
          ELSE [w1 EXCEPT !.obj[id].state_ = "connected"]
       fin(b) ==
          IF nok(b.status)
          THEN [w |-> close(b.w, id).w, status |-> b.status]
          ELSE [w |-> marked(generate_uid(b.w, id)), status |-> b.status]
       moded(r, st) ==
          fin(IF ok(st) THEN set_blocking(r.w, id, mode, env)
                        ELSE [w |-> r.w, status |-> st])
       connected(r) == moded(r, status_int(r.ret, "io", r.errno))
       created(c) ==
          connected(os_connect(c.w, c.w.obj[id].handle_, env.connect))
   IN created(create(w, id, env))

\* tcp_connect(server, mode): the status create() returns is dropped, the
\* local status stays ok and ::connect is issued on whatever handle_ holds
tcp_connect(w, id, mode, env) ==
   LET marked(w1) ==
          IF w1.obj[id].ssl_ # Null
          THEN [Log(w1, "SSL_set_fd", FALSE)
                   EXCEPT !.obj[id].state_ = "connecting"]
          ELSE [w1 EXCEPT !.obj[id].state_ = "connected"]
       fin(b) ==
          IF nok(b.status)
          THEN [w |-> close(b.w, id).w, status |-> b.status]
          ELSE [w |-> marked(generate_uid(b.w, id)), status |-> b.status]
       moded(r, st) ==
          fin(IF ok(st) THEN set_blocking(r.w, id, mode, env)
                        ELSE [w |-> r.w, status |-> st])
       connected(r) == moded(r, status_int(r.ret, "io", r.errno))
       created(c) ==
          connected(os_connect(c.w, c.w.obj[id].handle_, env.connect))
   IN IF w.obj[id].state_ = "connecting"
      THEN [w |-> w, status |-> status_default]
      ELSE IF w.obj[id].state_ # "idle"
      THEN [w |-> w, status |-> status_int(WSAEALREADY, "io", 0)]
      ELSE created(create(w, id, env))

\* ssl_connect that marks the socket connected while the handshake still
\* wants to read or write
ssl_connect_eager(w, id, env) ==
   LET failed(r, st) ==
          [w |-> IF ~ok(st) /\ ~would_block(st) THEN close(r.w, id).w
                 ELSE [r.w EXCEPT !.obj[id].state_ = "connected"],
           status |-> st]
       after(r) ==
          IF r.ret <= 0 THEN failed(r, status_ssl(env.tls))
          ELSE [w |-> [r.w EXCEPT !.obj[id].state_ = "connected"],
                status |-> status_default]
   IN after(SSL_connect(w, w.obj[id].ssl_, env.tls))

\* ssl_connect()
ssl_connect(w, id, env) ==
   LET failed(r, st) ==
          [w |-> IF ~ok(st) /\ ~would_block(st) THEN close(r.w, id).w
                                                ELSE r.w,
           status |-> st]
       after(r) ==
          IF r.ret <= 0 THEN failed(r, status_ssl(env.tls))
          ELSE [w |-> [r.w EXCEPT !.obj[id].state_ = "connected"],
                status |-> status_default]
   IN after(SSL_connect(w, w.obj[id].ssl_, env.tls))

\* tcp_accept(client, mode, address); its local socket_t lives in slot Local
tcp_accept(w, id, cid, mode, env) ==
   LET attach(n) ==
          [Log(n.w, "SSL_set_fd", FALSE)
              EXCEPT !.obj[Local].ctx_ = n.w.obj[id].ctx_,
                     !.obj[Local].ssl_ = n.ret]
       secured(w2) == IF w2.obj[id].ssl_ # Null THEN attach(SSL_new(w2)) ELSE w2
       handed(b) ==
          [w |-> destroy(
                    copy_assign(
                       secured(generate_uid(
                          [b.w EXCEPT !.obj[Local].mode_ = mode,
                                      !.obj[Local].state_ = "connected"],
                          Local)),
                       cid, Local),
                    Local),
           status |-> b.status]
       moded(b) ==
          IF nok(b.status)
          THEN [w |-> destroy(close(b.w, Local).w, Local), status |-> b.status]
          ELSE handed(b)
       accepted(r) ==
          IF r.ret = INVALID_SOCKET
          THEN [w |-> destroy([r.w EXCEPT !.obj[Local].handle_ = r.ret], Local),
                status |-> status_int(r.errno, "io", r.errno)]
          ELSE moded(set_blocking([r.w EXCEPT !.obj[Local].handle_ = r.ret],
                                  Local, mode, env))
       built(w0) == accepted(os_accept(w0, w0.obj[id].handle_, env.accept))
   IN IF w.obj[id].state_ = "accepting"
      THEN [w |-> w, status |-> status_default]
      ELSE built(construct(w, Local))

\* tcp_send(buffer, len, bytes_sent): [w, status, bytes]
tcp_send(w, id, len, env) ==
   LET after(r) ==
          IF r.ret = SOCKET_ERROR
          THEN [w |-> r.w, bytes |-> 0,
                status |-> status_int(r.errno, "want_write", r.errno)]
          ELSE [w |-> r.w, bytes |-> r.ret, status |-> status_default]
   IN IF w.obj[id].state_ # "connected"
      THEN [w |-> w, bytes |-> 0, status |-> status_int(WSAENOTCONN, "io", 0)]
      ELSE after(os_send(w, w.obj[id].handle_, len, env.io))

\* ssl_send(buffer, len, bytes_sent)
ssl_send(w, id, len, env) ==
   LET after(r) ==
          IF r.ret <= 0
          THEN [w |-> r.w, bytes |-> 0, status |-> status_ssl(env.tls)]
          ELSE [w |-> r.w, bytes |-> r.bytes, status |-> status_default]
   IN IF w.obj[id].state_ # "connected"
      THEN [w |-> w, bytes |-> 0, status |-> status_int(WSAENOTCONN, "io", 0)]
      ELSE after(SSL_write_ex(w, w.obj[id].ssl_, env.tls, env.k))

\* tcp_recv closing the socket when ::recv fails
tcp_recv_closing(w, id, len, env) ==
   LET after(r) ==
          IF r.ret = SOCKET_ERROR
          THEN [w |-> close(r.w, id).w, bytes |-> 0,
                status |-> status_int(r.errno, "want_read", r.errno)]
          ELSE IF r.ret = 0
          THEN [w |-> r.w, bytes |-> 0, status |-> status_int(0, "closing", 0)]
          ELSE [w |-> r.w, bytes |-> r.ret, status |-> status_default]
   IN IF w.obj[id].state_ # "connected"
      THEN [w |-> w, bytes |-> 0, status |-> status_int(WSAENOTCONN, "io", 0)]
      ELSE after(os_recv(w, w.obj[id].handle_, len, env.io))

\* tcp_recv(buffer, len, bytes_received): [w, status, bytes]
tcp_recv(w, id, len, env) ==
   LET after(r) ==
          IF r.ret = SOCKET_ERROR
          THEN [w |-> r.w, bytes |-> 0,
                status |-> status_int(r.errno, "want_read", r.errno)]
          ELSE IF r.ret = 0
          THEN [w |-> r.w, bytes |-> 0, status |-> status_int(0, "closing", 0)]
          ELSE [w |-> r.w, bytes |-> r.ret, status |-> status_default]
   IN IF w.obj[id].state_ # "connected"
      THEN [w |-> w, bytes |-> 0, status |-> status_int(WSAENOTCONN, "io", 0)]
      ELSE after(os_recv(w, w.obj[id].handle_, len, env.io))

\* ssl_recv(buffer, len, bytes_received)
ssl_recv(w, id, len, env) ==
   LET after(r) ==
          IF r.ret <= 0
          THEN [w |-> r.w, bytes |-> 0, status |-> status_ssl(env.tls)]
          ELSE [w |-> r.w, bytes |-> r.bytes, status |-> status_default]
   IN IF w.obj[id].state_ # "connected"
      THEN [w |-> w, bytes |-> 0, status |-> status_int(WSAENOTCONN, "io", 0)]
      ELSE after(SSL_read_ex(w, w.obj[id].ssl_, env.tls, env.k))

(***************************************************************************)
(* socket_t public methods                                                 *)
(***************************************************************************)
\* tcp_connect(server, mode) on an idle socket, up to the call of
\* generate_uid
tcp_connect_begin(w, id, mode, env) ==
   LET fin(b) ==
          IF nok(b.status)
          THEN [w |-> close(b.w, id).w, status |-> b.status]
          ELSE b
       moded(r, st) ==
          fin(IF ok(st) THEN set_blocking(r.w, id, mode, env)
                        ELSE [w |-> r.w, status |-> st])
       connected(r) == moded(r, status_int(r.ret, "io", r.errno))
       created(c) ==
          connected(os_connect(c.w, c.w.obj[id].handle_, env.connect))
   IN created(create(w, id, env))

\* counter.fetch_add(1) that adds nothing
fetch_add_none(w) == [w |-> w, ret |-> w.counter]

\* counter.fetch_add(1, std::memory_order_relaxed): one atomic step
fetch_add(w) == [w |-> [w EXCEPT !.counter = @ + 1], ret |-> w.counter]

\* connect(server, mode) from the store of generate_uid, uid_ = uid, to
\* its return
connect_end(w, id, uid, env) ==
   LET marked(w1) ==
          IF w1.obj[id].ssl_ # Null
          THEN [Log(w1, "SSL_set_fd", FALSE)
                   EXCEPT !.obj[id].state_ = "connecting"]
          ELSE [w1 EXCEPT !.obj[id].state_ = "connected"]
       after(w2) ==
          IF w2.obj[id].ssl_ # Null THEN ssl_connect(w2, id, env)
          ELSE [w |-> w2, status |-> status_default]
   IN after(marked([w EXCEPT !.obj[id].uid_ = uid]))

\* connect(server, mode): [w, status]
connect(w, id, mode, env) ==
   LET after(t) ==
          IF ok(t.status) /\ t.w.obj[id].ssl_ # Null
          THEN ssl_connect(t.w, id, env)
          ELSE t
   IN after(tcp_connect(w, id, mode, env))

\* disconnect that lets the status of the TLS shutdown win over the status
\* of ::shutdown
disconnect_tlsfirst(w, id, env) ==
   LET s == w.obj[id]
       fin(r, tcp_status, ssl_status) ==
          [w |-> close(r.w, id).w,
           status |-> IF ok(ssl_status) THEN tcp_status ELSE ssl_status]
       down(r, ssl_status) ==
          fin(r, status_int(r.ret, "io", r.errno), ssl_status)
       tlsdown(x) ==
          down(os_shutdown(x.w, s.handle_, env.shutdown),
               IF x.ret # 0 THEN status_ssl(env.tls) ELSE status_default)
   IN IF s.state_ = "connected"
      THEN tlsdown(IF s.ssl_ # Null
                   THEN SSL_shutdown(w, s.ssl_, env.shut, env.tls)
                   ELSE [w |-> w, ret |-> 0])
      ELSE [w |-> close(w, id).w, status |-> status_default]

\* disconnect that shuts the connection down without looking at state_
disconnect_unguarded(w, id, env) ==
   LET s == w.obj[id]
       fin(r, tcp_status, ssl_status) ==
          [w |-> close(r.w, id).w,
           status |-> IF ok(tcp_status) THEN ssl_status ELSE tcp_status]
       down(r, ssl_status) ==
          fin(r, status_int(r.ret, "io", r.errno), ssl_status)
       tlsdown(x) ==
          down(os_shutdown(x.w, s.handle_, env.shutdown),
               IF x.ret # 0 THEN status_ssl(env.tls) ELSE status_default)
   IN tlsdown(IF s.ssl_ # Null
              THEN SSL_shutdown(w, s.ssl_, env.shut, env.tls)
              ELSE [w |-> w, ret |-> 0])

\* disconnect(how): [w, status]
disconnect(w, id, env) ==
   LET s == w.obj[id]
       fin(r, tcp_status, ssl_status) ==
          [w |-> close(r.w, id).w,
           status |-> IF ok(tcp_status) THEN ssl_status ELSE tcp_status]
       down(r, ssl_status) ==
          fin(r, status_int(r.ret, "io", r.errno), ssl_status)
       tlsdown(x) ==
          down(os_shutdown(x.w, s.handle_, env.shutdown),
               IF x.ret # 0 THEN status_ssl(env.tls) ELSE status_default)
   IN IF s.state_ = "connected"
      THEN tlsdown(IF s.ssl_ # Null
                   THEN SSL_shutdown(w, s.ssl_, env.shut, env.tls)
                   ELSE [w |-> w, ret |-> 0])
      ELSE [w |-> close(w, id).w, status |-> status_default]

\* listen(server, mode, backlog): [w, status]; when create() succeeds its
\* ok status is returned at once
listen(w, id, mode, env) ==
   LET fin(m) ==
          [w |-> IF ok(m.status)
                 THEN [generate_uid(m.w, id)
                          EXCEPT !.obj[id].state_ = "listening"]
                 ELSE close(m.w, id).w,
           status |-> m.status]
       listened(l, st) ==
          fin(IF ok(st) THEN set_blocking(l.w, id, mode, env)
                        ELSE [w |-> l.w, status |-> st])
       afterlisten(l) == listened(l, status_int(l.ret, "io", l.errno))
       bound(b, st) ==
          IF ok(st)
          THEN afterlisten(os_listen(b.w, b.w.obj[id].handle_, env.listen))
          ELSE listened(b, st)
       afterbind(b) == bound(b, status_int(b.ret, "io", b.errno))
       created(c) ==
          IF ok(c.status) THEN c
          ELSE afterbind(os_bind(c.w, c.w.obj[id].handle_, env.bind))
   IN IF w.obj[id].state_ # "idle"
      THEN [w |-> w, status |-> status_int(WSAEALREADY, "io", 0)]
      ELSE created(create(w, id, env))

\* accept(client, mode): [w, status]
accept(w, id, cid, mode, env) ==
   LET marked(w1, st) ==
          IF ok(st) THEN [w1 EXCEPT !.obj[cid].state_ = "connected"] ELSE w1
       failed(r, st) ==
          [w |-> IF ~ok(st) /\ ~would_block(st)
                 THEN close(marked(r.w, st), id).w
                 ELSE marked(r.w, st),
           status |-> st]
       shaken(r, t) ==
          IF r.ret <= 0 THEN failed(r, status_ssl(env.tls))
          ELSE [w |-> [r.w EXCEPT !.obj[id].state_ = "listening"],
                status |-> t.status]
       after(t) ==
          IF ok(t.status) /\ t.w.obj[id].state_ = "accepting"
          THEN shaken(SSL_accept(t.w, t.w.obj[cid].ssl_, env.tls), t)
          ELSE t
   IN after(tcp_accept(w, id, cid, mode, env))

\* send() leaving index where it was
send_noadvance(w, id, len, index, env) ==
   LET after(r) ==
          [w |-> r.w, bytes |-> r.bytes, status |-> r.status, index |-> index]
   IN IF index >= len
      THEN [w |-> w, bytes |-> 0, status |-> status_default, index |-> index]
      ELSE after(IF w.obj[id].ssl_ # Null
                 THEN ssl_send(w, id, len - index, env)
                 ELSE tcp_send(w, id, len - index, env))

\* send(buffer, len, index, bytes_sent): [w, status, bytes, index]
send(w, id, len, index, env) ==
   LET after(r) ==
          [w |-> r.w, bytes |-> r.bytes, status |-> r.status,
           index |-> index + r.bytes]
   IN IF index >= len
      THEN [w |-> w, bytes |-> 0, status |-> status_default, index |-> index]
      ELSE after(IF w.obj[id].ssl_ # Null
                 THEN ssl_send(w, id, len - index, env)
                 ELSE tcp_send(w, id, len - index, env))

\* recv(buffer, len, bytes_received): [w, status, bytes]
recv(w, id, len, env) ==
   IF w.obj[id].ssl_ # Null THEN ssl_recv(w, id, len, env)
                            ELSE tcp_recv(w, id, len, env)

\* wait_event(event, timeout_ms): [w, status, ret, revents, timeout]; the
\* last two tests read fdset.events, the flags that were requested
wait_event(w, id, event, timeout_ms, out) ==
   LET connect_flags == {"POLLHUP", "POLLERR", "POLLWRNORM"}
       events == set_events(event)
       decided(r, st) ==
          [w |-> r.w, ret |-> r.ret, timeout |-> r.timeout,
           revents |-> r.revents, status |-> st]
       after(r) ==
          decided(r,
             IF r.ret = 0
             THEN status_int(WSAEWOULDBLOCK, get_code(event), r.errno)
             ELSE IF r.ret = SOCKET_ERROR
             THEN status_int(r.errno, get_code(event), r.errno)
             ELSE IF event = "connect_ready" /\ connect_flags \subseteq r.revents
             THEN status_int(WSAECONNREFUSED, "io", r.errno)
             ELSE IF event = "connect_ready" /\ "POLLWRNORM" \in events
             THEN status_default
             ELSE IF events \cap {"POLLHUP", "POLLRDNORM", "POLLWRNORM"} # {}
             THEN status_default
             ELSE status_int(WSAEWOULDBLOCK, get_code(event), r.errno))
   IN after(os_poll(w, w.obj[id].handle_, events, timeout_ms, out))

\* verify_peer_certificate() const, where SSL_get_peer_certificate gives a
\* certificate exactly when presented and SSL_get_verify_result gives result
verify_peer_certificate(w, id, presented, result) ==
   IF w.obj[id].ssl_ = Null THEN TRUE
   ELSE IF w.obj[id].state_ # "connected" THEN FALSE
   ELSE IF presented THEN result = X509_V_OK
   ELSE FALSE

(***************************************************************************)
(* Actions: one public method applied to one object                        *)
(***************************************************************************)
Modes == {"blocking", "nonblocking"}

\* the outcomes the environment gives the calls of one operation; an
\* action draws the fields its calls read
Env0 == [tls |-> SSL_ERROR_NONE, k |-> 1, ioctl |-> TRUE, socket |-> TRUE,
         connect |-> TRUE, accept |-> TRUE, io |-> 1, shutdown |-> TRUE,
         shut |-> 1, listen |-> TRUE, bind |-> TRUE]

\* the arguments and raw outcomes an operation records besides the above
NoInput == [given |-> <<>>]

\* what the operation returned, the calls it made, the object before it
Result(op, id, r) ==
   [calls |-> r.w.calls, fails |-> r.w.fails, tls |-> r.w.tls,
    mode |-> "blocking", bytes |-> 0, id |-> id, status |-> r.status,
    len |-> 0, io |-> 1, index |-> 0, op |-> op, in |-> NoInput,
    pre |-> obj[id], newindex |-> 0, client |-> NoObject]

\* some object holds a reference count that was deleted
Dangling(w) ==
   \E i \in Copies : w.obj[i].ref_count_ # Null /\ w.heap[w.obj[i].ref_count_] = 0

\* the members and the resources after the operation; the memory of a
\* deleted reference count may hold anything once somebody can still read it
Store(r) ==
   /\ obj' = r.w.obj
   /\ heap' = r.w.heap
   /\ fds' = r.w.fds
   /\ ssl' = r.w.ssl
   /\ counter' = r.w.counter
   /\ stale' \in IF Dangling(r.w) THEN StaleReads ELSE {1}

\* the uids the operation drew from the counter and stored, in order
Issued(r) ==
   issued' = issued \o [k \in 1..(r.w.counter - counter) |-> counter + k - 1]

Commit(r) ==
   /\ Store(r)
   /\ live' = live
   /\ thread' = thread
   /\ Issued(r)
   /\ spin' = spin
   /\ contexts' = contexts
   /\ file' = file
   /\ loop' = loop

\* the tls::context_t objects of the program and the SSL_CTX objects of the
\* engine.  ctx[i] is the member ctx_ of the context in slot i, Null when it
\* holds none; alive is the set of the slots that hold an object.  conf[p]
\* tells whether the engine configuration p was never allocated ("none"),
\* is allocated ("held"), was released once ("freed") or more than once
\* ("twice").
CtxSlots == {"a", "b"}
Confs == 1..MaxCtx
NoContexts ==
   [ctx |-> [i \in CtxSlots |-> Null], conf |-> [p \in Confs |-> "none"],
    alive |-> {}, aborted |-> FALSE]

\* one spin_lock_t and the threads that use it.  flag_ is the atomic flag;
\* at[t] is where thread t is: "out" of the lock, calling "test_and_set" in
\* lock(), in "yield" after finding the flag set, or "in" between a lock()
\* that returned and its unlock(); guard[t] tells whether the thread took
\* the lock through a spin_guard_t that is still in scope.
SpinThreads == 1..MaxSpin
NoLock ==
   [flag_ |-> FALSE, at |-> [t \in SpinThreads |-> "out"],
    guard |-> [t \in SpinThreads |-> FALSE]]

\* file_t file; with no file in the file system yet
NoFileOpen ==
   [fd_ |-> INVALID_HANDLE_VALUE, type_ |-> "read_write", exists |-> FALSE,
    data |-> <<>>, pos |-> 0, consumed |-> 0]

\* a caller that is not in send_msg(); msg is the message, one value per
\* byte, and handed the bytes the transport took, in the order it took them
NotSending ==
   [id |-> "s", status |-> status_default, handed |-> <<>>, index |-> 0,
    pc |-> "ready", msg |-> <<>>, bytes_sent |-> 0]

\* a thread that runs no member of socket_t: before its operation (ready)
\* or after it (done); reg is the value it read from *ref_count_
Ready == [id |-> "s", src |-> "s", pc |-> "ready", reg |-> 0]

\* the environment in which the OS call named f (if any) fails
Failing(f) ==
   [Env0 EXCEPT !.socket = (f # "socket"), !.connect = (f # "connect"),
                !.ioctl = (f # "ioctl"), !.bind = (f # "bind"),
                !.listen = (f # "listen"), !.accept = (f # "accept"),
                !.shutdown = (f # "shutdown")]

\* the outcomes of the TLS engine for an object: one when it has no engine
TlsOutcomes(hasTls, mode) ==
   IF hasTls THEN EngineOutcomes(mode) ELSE {SSL_ERROR_NONE}

\* the blocking mode the handshake of this connect() runs under
HandshakeMode(id, mode) ==
   IF obj[id].state_ = "connecting" THEN obj[id].mode_ ELSE mode

Connect(id) ==
   /\ counter <= MaxUid
   /\ \E mode \in Modes :
      \E f \in IF obj[id].state_ = "idle"
               THEN {"none", "socket", "connect", "ioctl"} ELSE {"none"} :
      \E hs \in TlsOutcomes(obj[id].ctx_ # Null, HandshakeMode(id, mode)) :
         LET env == [Failing(f) EXCEPT !.tls = hs]
             r == connect(World, id, mode, env)
         IN /\ Commit(r)
            /\ last' = [Result("connect", id, r) EXCEPT !.mode = mode]

Disconnect(id) ==
   \E f \in IF obj[id].state_ = "connected" THEN {"none", "shutdown"}
                                             ELSE {"none"} :
   \E x \in IF obj[id].state_ = "connected" /\ obj[id].ssl_ # Null
            THEN ShutdownOutcomes(obj[id].mode_) ELSE {<<1, SSL_ERROR_NONE>>} :
      LET env == [Failing(f) EXCEPT !.shut = x[1], !.tls = x[2]]
          r == disconnect(World, id, env)
      IN /\ Commit(r)
         /\ last' = Result("disconnect", id, r)

Listen(id) ==
   /\ counter <= MaxUid
   /\ \E mode \in Modes :
      \E f \in IF obj[id].state_ = "idle"
               THEN {"none", "socket", "bind", "listen", "ioctl"}
               ELSE {"none"} :
         LET r == listen(World, id, mode, Failing(f))
         IN /\ Commit(r)
            /\ last' = [Result("listen", id, r) EXCEPT !.mode = mode]

Accept(id, cid) ==
   /\ counter <= MaxUid
   /\ id # cid
   /\ \E mode \in Modes, f \in {"none", "accept", "ioctl"} :
      \E hs \in TlsOutcomes(obj[id].ssl_ # Null, mode) :
         LET env == [Failing(f) EXCEPT !.tls = hs]
             r == accept(World, id, cid, mode, env)
         IN /\ Commit(r)
            /\ last' = [Result("accept", id, r) EXCEPT
                           !.mode = mode, !.client = obj[cid],
                           !.in = [pending |-> env.accept, given |-> <<>>]]

\* the outcomes of the one transport call of a send or recv of n bytes:
\* <<::send/::recv outcome, engine outcome, bytes the engine moved>>
Transport(id, n, outs) ==
   IF obj[id].state_ # "connected" \/ n = 0 THEN {<<1, SSL_ERROR_NONE, 1>>}
   ELSE IF obj[id].ssl_ # Null
   THEN {<<1, SSL_ERROR_NONE, k>> : k \in 1..n}
        \cup {<<1, e, 1>> : e \in EngineOutcomes(obj[id].mode_) \ {SSL_ERROR_NONE}}
   ELSE {<<o, SSL_ERROR_NONE, 1>> : o \in outs}

Send(id) ==
   \E len \in 0..MaxLen, index \in 0..MaxLen :
   \E t \in Transport(id, IF index < len THEN len - index ELSE 0,
                      SendOutcomes(len - index)) :
      LET env == [Env0 EXCEPT !.io = t[1], !.tls = t[2], !.k = t[3]]
          r == send(World, id, len, index, env)
      IN /\ Commit(r)
         /\ last' = [Result("send", id, r) EXCEPT !.len = len,
                        !.index = index, !.newindex = r.index,
                        !.bytes = r.bytes,
                        !.io = IF obj[id].ssl_ # Null THEN t[3] ELSE t[1]]

Recv(id) ==
   \E len \in 1..MaxLen :
   \E t \in Transport(id, len, RecvOutcomes(len)) :
      LET env == [Env0 EXCEPT !.io = t[1], !.tls = t[2], !.k = t[3]]
          r == recv(World, id, len, env)
      IN /\ Commit(r)
         /\ last' = [Result("recv", id, r) EXCEPT !.len = len,
                                   !.bytes = r.bytes, !.io = t[1]]

Events == {"recv_ready", "send_ready", "connect_ready", "accept_ready"}
Timeouts == {SOCKET_WAIT_FOREVER, SOCKET_WAIT_NEVER, MaxWait}

\* wait_event(event) or wait_event(event, timeout_ms): given is the list of
\* the arguments after event; a missing timeout_ms is SOCKET_WAIT_NEVER
WaitEvent(id) ==
   \E event \in Events, given \in {<<>>} \cup {<<t>> : t \in Timeouts} :
      LET timeout_ms == IF given = <<>> THEN SOCKET_WAIT_NEVER ELSE given[1] IN
      \E out \in PollOutcomes(World, obj[id].handle_, set_events(event),
                               timeout_ms) :
         LET r == wait_event(World, id, event, timeout_ms, out)
         IN /\ Commit(r)
            /\ last' = [Result("wait_event", id, r) EXCEPT
                           !.in = [ret |-> r.ret, errno |-> out.errno,
                                   timeout |-> r.timeout,
                                   revents |-> r.revents, event |-> event,
                                   given |-> given]]

Init ==
   /\ \E ctx \in {Null, TheCtx} :
         obj = [i \in Slots |->
                  CASE i = "s" -> socket_t(ctx, 1)
                    [] i = "c" -> socket_t(Null, 2)
                    [] OTHER   -> NoObject]
   /\ heap = [c \in Cells |-> IF c \in {1, 2} THEN 1 ELSE 0]
   /\ fds = [h \in Handles |-> "closed"]
   /\ ssl = [x \in Sessions |-> "free"]
   /\ counter = 1
   /\ live = ObjIds
   /\ stale = 1
   /\ thread = [t \in Threads |-> Ready]
   /\ issued = <<>>
   /\ loop = NotSending
   /\ spin = NoLock
   /\ contexts = NoContexts
   /\ file = NoFileOpen
   /\ last = [calls |-> {}, fails |-> {}, tls |-> NoTls, mode |-> "blocking",
              bytes |-> 0, id |-> "s", status |-> status_default, len |-> 0,
              io |-> 1, index |-> 0, op |-> "init", in |-> NoInput,
              pre |-> NoObject, newindex |-> 0, client |-> NoObject]

Next ==
   \/ \E id \in Callers : Connect(id)
   \/ \E id \in Callers : Disconnect(id)
   \/ \E id \in Callers : Listen(id)
   \/ \E id \in Callers, cid \in ObjIds : Accept(id, cid)
   \/ \E id \in Callers : Send(id)
   \/ \E id \in Callers : Recv(id)

Spec == Init /\ [][Next]_vars

\* a client that connects, waits for readiness and disconnects
WaitNext ==
   \/ \E id \in Callers : Connect(id)
   \/ \E id \in Callers : Disconnect(id)
   \/ \E id \in Callers : WaitEvent(id)

WaitSpec == Init /\ [][WaitNext]_vars

(***************************************************************************)
(* socket::status_t on its own: every constructor applied to every input  *)
(***************************************************************************)
Hints == {"none", "closing", "want_read", "want_write", "io", "fatal"}
Errors == {0, SOCKET_ERROR, WSAEWOULDBLOCK, ECONNRESET}
LastErrors == {0, WSAEWOULDBLOCK, ECONNRESET}
ErrQueue == {0, CERT_VERIFY_FAILED}

\* what a constructor of status_t built, and from what
Built(op, st, in) ==
   /\ UNCHANGED <<obj, heap, fds, ssl, counter, live, stale, thread, issued,
               loop, file, contexts, spin>>
   /\ last' = [Result(op, "s", [w |-> World, status |-> st]) EXCEPT !.in = in]

\* status_t()
StatusDefault == Built("status_default", status_default, NoInput)

\* status_t(error) or status_t(error, hint) while errno is lasterr (not 0
\* when error is the -1 of a failed call); given is the list of the
\* arguments after error, a missing hint is io
StatusInt ==
   \E error \in Errors, given \in {<<>>} \cup {<<h>> : h \in Hints} :
   \E lasterr \in IF error = SOCKET_ERROR THEN LastErrors \ {0}
                                          ELSE LastErrors :
      LET hint == IF given = <<>> THEN "io" ELSE given[1] IN
      Built("status_int", status_int(error, hint, lasterr),
            [error |-> error, hint |-> hint, lasterr |-> lasterr,
             given |-> given])

\* status_t(ssl, ret) where SSL_get_error gives sslerr, the error queue of
\* the engine holds queue and errno is lasterr
StatusSsl ==
   \E sslerr \in EngineOutcomes("nonblocking"), queue \in ErrQueue,
      lasterr \in LastErrors :
      Built("status_ssl", status_ssl(sslerr),
            [lasterr |-> lasterr, sslerr |-> sslerr, queue |-> queue,
             given |-> <<>>])

\* status_t(status_code_t::fatal) while the error queue holds queue
StatusCtx ==
   \E queue \in ErrQueue :
      Built("status_ctx", status_ctx(queue),
            [queue |-> queue, given |-> <<>>])

\* clear() on the status built last
Clear ==
   /\ last.op \in {"status_int", "status_ssl", "status_ctx"}
   /\ Built("clear", clear(last.status), [given |-> <<>>, was |-> last.status])

StatusNext ==
   \/ StatusDefault
   \/ StatusInt
   \/ StatusSsl
   \/ StatusCtx
   \/ Clear

StatusSpec == Init /\ [][StatusNext]_vars

(***************************************************************************)
(* Copies of a socket: copy construction, copy assignment, disconnect()    *)
(* and destruction of the objects in the two slots.  A run-time abort on   *)
(* a second delete ends the program and has no successor here.            *)
(***************************************************************************)
\* socket_t dst(src): dst comes to life as a copy of src
CopyConstruct(dst, src) ==
   /\ dst \notin live
   /\ src \in live
   /\ LET r == [w |-> copy_construct(World, dst, src), status |-> status_default]
      IN /\ Store(r)
         /\ live' = live \cup {dst}
         /\ thread' = thread
         /\ Issued(r)
         /\ spin' = spin
         /\ contexts' = contexts
         /\ file' = file
         /\ loop' = loop
         /\ last' = [Result("copy_construct", dst, r) EXCEPT
                        !.in = [src |-> src, given |-> <<>>]]

\* dst = src
CopyAssign(dst, src) ==
   /\ dst \in live
   /\ src \in live
   /\ dst # src
   /\ LET r == [w |-> copy_assign(World, dst, src), status |-> status_default]
      IN /\ Commit(r)
         /\ last' = [Result("copy_assign", dst, r) EXCEPT
                        !.in = [src |-> src, given |-> <<>>]]

\* the object in slot id goes out of scope
Destroy(id) ==
   /\ id \in live
   /\ LET r == [w |-> destroy(World, id), status |-> status_default]
      IN /\ Store(r)
         /\ live' = live \ {id}
         /\ thread' = thread
         /\ Issued(r)
         /\ spin' = spin
         /\ contexts' = contexts
         /\ file' = file
         /\ loop' = loop
         /\ last' = Result("destroy", id, r)

\* connect(server) to a server that accepts at once: every OS step succeeds
\* and the handshake, if there is one, completes in its first step
Open(id) ==
   /\ counter <= MaxUid
   /\ FreeSessions(World) # {}
   /\ LET r == connect(World, id, "blocking", Env0)
      IN /\ Commit(r)
         /\ last' = Result("connect", id, r)

OwnNext ==
   \/ \E id \in Callers \cap live : Open(id)
   \/ \E id \in live : Disconnect(id)
   \/ \E dst \in ObjIds, src \in ObjIds : CopyConstruct(dst, src)
   \/ \E dst \in ObjIds, src \in ObjIds : CopyAssign(dst, src)
   \/ \E id \in ObjIds : Destroy(id)

OwnSpec == Init /\ [][OwnNext]_vars

(***************************************************************************)
(* Moves of a socket next to copies: move construction and move           *)
(* assignment with connect, disconnect, copy construction and destruction *)
(***************************************************************************)
\* socket_t dst(std::move(src)): dst comes to life, src stays alive
MoveConstruct(dst, src) ==
   /\ dst \notin live
   /\ src \in live
   /\ LET r == [w |-> move_construct(World, dst, src), status |-> status_default]
      IN /\ Store(r)
         /\ live' = live \cup {dst}
         /\ thread' = thread
         /\ Issued(r)
         /\ spin' = spin
         /\ contexts' = contexts
         /\ file' = file
         /\ loop' = loop
         /\ last' = [Result("move_construct", dst, r) EXCEPT
                        !.in = [src |-> src, given |-> <<>>]]

\* dst = std::move(src)
MoveAssign(dst, src) ==
   /\ dst \in live
   /\ src \in live
   /\ dst # src
   /\ LET r == [w |-> move_assign(World, dst, src), status |-> status_default]
      IN /\ Commit(r)
         /\ last' = [Result("move_assign", dst, r) EXCEPT
                        !.in = [src |-> src, given |-> <<>>]]

MoveNext ==
   \/ \E id \in Callers \cap live : Open(id)
   \/ \E id \in live : Disconnect(id)
   \/ \E dst \in ObjIds, src \in ObjIds : CopyConstruct(dst, src)
   \/ \E dst \in ObjIds, src \in ObjIds : MoveConstruct(dst, src)
   \/ \E dst \in ObjIds, src \in ObjIds : MoveAssign(dst, src)
   \/ \E id \in ObjIds : Destroy(id)

MoveSpec == Init /\ [][MoveNext]_vars

(***************************************************************************)
(* Two threads on the objects that share a handle.  The program connects  *)
(* a socket, then copies it, on one thread; then each of two threads runs *)
(* one copy construction or one destruction, on objects no other thread   *)
(* is using, while the reference count they reach through ref_count_ is   *)
(* the same plain unsigned.  ++*ref_count_ and --*ref_count_ are a      *)
(* read and a write of that unsigned; a thread takes its next step        *)
(* whenever it is scheduled.                                              *)
(***************************************************************************)
Running(t) == thread[t].pc \notin {"ready", "done"}
Quiet == \A t \in Threads : ~Running(t)

\* the objects some thread other than t is building, destroying or reading
InUse(t) ==
   UNION {{thread[u].id, thread[u].src} : u \in {v \in Threads \ {t} : Running(v)}}

\* the members and resources after a step of thread t
Step(t, w, lv, th) ==
   /\ Store([w |-> w])
   /\ live' = lv
   /\ thread' = [thread EXCEPT ![t] = th]
   /\ last' = last
   /\ issued' = issued
   /\ spin' = spin
   /\ contexts' = contexts
   /\ file' = file
   /\ loop' = loop

\* socket_t dst(src) on thread t: the member initialisers and, when
\* ref_count_ is not null, the read of ++*ref_count_
CopyRead(t, dst, src) ==
   /\ thread[t].pc = "ready"
   /\ dst \in Copies \ live
   /\ src \in live
   /\ {dst, src} \cap InUse(t) = {}
   /\ LET w == [World EXCEPT !.obj[dst] = obj[src]]
          c == obj[src].ref_count_
      IN IF c = Null
         THEN Step(t, w, live \cup {dst},
                   [id |-> dst, src |-> src, pc |-> "done", reg |-> 0])
         ELSE Step(t, w, live,
                   [id |-> dst, src |-> src, pc |-> "copy_write",
                    reg |-> Deref(World, c)])

\* the write of ++*ref_count_; the constructor returns
CopyWrite(t) ==
   /\ thread[t].pc = "copy_write"
   /\ LET c == obj[thread[t].id].ref_count_
      IN Step(t, Assign(World, c, thread[t].reg + 1),
              live \cup {thread[t].id}, [thread[t] EXCEPT !.pc = "done"])

\* ~socket_t() of id on thread t: the tests of close()
DestroyTest(t, id) ==
   /\ thread[t].pc = "ready"
   /\ id \in live
   /\ id \notin InUse(t)
   /\ LET c == obj[id].ref_count_
      IN IF c = Null
         THEN Step(t, [World EXCEPT !.obj[id] = NoObject], live \ {id},
                   [id |-> id, src |-> id, pc |-> "done", reg |-> 0])
         ELSE Step(t, World, live,
                   [id |-> id, src |-> id,
                    pc |-> IF Deref(World, c) = 1 THEN "release"
                                                  ELSE "dec_read",
                    reg |-> 0])

\* the branch of close() that closes the handle and deletes the count
DestroyRelease(t) ==
   /\ thread[t].pc = "release"
   /\ LET id == thread[t].id
      IN Step(t, [release(World, id).w EXCEPT !.obj[id] = NoObject],
              live \ {id}, [thread[t] EXCEPT !.pc = "done"])

\* the read of --*ref_count_
DestroyRead(t) ==
   /\ thread[t].pc = "dec_read"
   /\ Step(t, World, live,
           [thread[t] EXCEPT !.pc = "dec_write",
                             !.reg = Deref(World, obj[thread[t].id].ref_count_)])

\* the write of --*ref_count_; the destructor returns
DestroyWrite(t) ==
   /\ thread[t].pc = "dec_write"
   /\ LET id == thread[t].id
          w == Assign(World, obj[id].ref_count_, thread[t].reg - 1)
      IN Step(t, [w EXCEPT !.obj[id] = NoObject], live \ {id},
              [thread[t] EXCEPT !.pc = "done"])

\* the object in slot id has no copy
Unshared(id) == \A i \in live \ {id} : obj[i].ref_count_ # obj[id].ref_count_

RaceNext ==
   \/ Quiet /\ \E id \in Callers \cap live : Unshared(id) /\ Open(id)
   \/ Quiet /\ \E dst \in ObjIds, src \in ObjIds : CopyConstruct(dst, src)
   \/ Quiet /\ \E id \in Copies : Destroy(id)
   \/ \E t \in Threads, dst \in Copies, src \in Copies : CopyRead(t, dst, src)
   \/ \E t \in Threads : CopyWrite(t)
   \/ \E t \in Threads, id \in Copies : DestroyTest(t, id)
   \/ \E t \in Threads : DestroyRelease(t)
   \/ \E t \in Threads : DestroyRead(t)
   \/ \E t \in Threads : DestroyWrite(t)

RaceSpec == Init /\ [][RaceNext]_vars

(***************************************************************************)
(* Two threads that connect and disconnect different sockets.             *)
(* generate_uid is uid_ = counter.fetch_add(1): an atomic step on the     *)
(* counter all sockets share, then a store into the thread's own socket.  *)
(***************************************************************************)
\* connect(server, mode) of the idle socket id on thread t, through
\* counter.fetch_add(1)
ConnectFetch(t, id) ==
   /\ counter <= MaxUid
   /\ ~Running(t)
   /\ id \in live \ InUse(t)
   /\ obj[id].state_ = "idle"
   /\ FreeSessions(World) # {}
   /\ \E mode \in Modes, f \in {"none", "connect"} :
         LET r == tcp_connect_begin(World, id, mode, Failing(f))
             drawn(x) ==
                /\ Store(x)
                /\ thread' = [thread EXCEPT ![t] =
                      [id |-> id, src |-> id, pc |-> "uid_store",
                       reg |-> x.ret]]
                /\ last' = last
         IN /\ live' = live
            /\ issued' = issued
            /\ spin' = spin
            /\ contexts' = contexts
            /\ file' = file
            /\ loop' = loop
            /\ IF nok(r.status)
               THEN /\ Store(r)
                    /\ thread' = [thread EXCEPT ![t] =
                          [id |-> id, src |-> id, pc |-> "done", reg |-> 0]]
                    /\ last' = [Result("connect", id, r) EXCEPT !.mode = mode]
               ELSE drawn(fetch_add(r.w))

\* the store uid_ = (what fetch_add returned) and the rest of connect
ConnectStore(t) ==
   /\ thread[t].pc = "uid_store"
   /\ LET id == thread[t].id IN
      \E hs \in TlsOutcomes(obj[id].ssl_ # Null, obj[id].mode_) :
         LET r == connect_end(World, id, thread[t].reg,
                              [Env0 EXCEPT !.tls = hs])
         IN /\ Store(r)
            /\ live' = live
            /\ thread' = [thread EXCEPT ![t].pc = "done"]
            /\ issued' = Append(issued, thread[t].reg)
            /\ spin' = spin
            /\ contexts' = contexts
            /\ file' = file
            /\ loop' = loop
            /\ last' = [Result("connect", id, r) EXCEPT
                           !.mode = obj[id].mode_]

UidNext ==
   \/ \E t \in Threads, id \in ObjIds : ConnectFetch(t, id)
   \/ \E t \in Threads : ConnectStore(t)
   \/ \E t \in Threads :
         ~Running(t) /\ \E id \in live \ InUse(t) : Disconnect(id)

UidSpec == Init /\ [][UidNext]_vars

(***************************************************************************)
(* tls::context_t on its own: every constructor under every outcome of    *)
(* the engine calls it makes                                               *)
(***************************************************************************)
ContextTypes == {"client", "server"}
PemFiles == {"cert.pem", "key.pem"}

\* what a call into the engine can do: succeed, or fail and leave an entry
\* in the error queue, or fail and leave none
CallOutcomes ==
   {[push |-> 0, done |-> TRUE]}
      \cup {[push |-> q, done |-> FALSE] : q \in ErrQueue}

\* a context_t was constructed: its status(), its members and the calls
Constructed(op, c, given, queue) ==
   /\ UNCHANGED <<obj, heap, fds, ssl, counter, live, stale, thread, issued,
               loop, file, contexts, spin>>
   /\ last' = [Result(op, "s", [w |-> World, status |-> c.status_]) EXCEPT
                  !.calls = c.calls, !.fails = c.fails,
                  !.in = [ctx_ |-> c.ctx_, queue |-> queue, held |-> c.held,
                          given |-> given]]

\* context_t() while the error queue holds queue
ContextDefault ==
   \E queue \in ErrQueue :
      Constructed("context_default", context_default(queue), <<>>, queue)

\* context_t(type), context_t(type, pem_file) or
\* context_t(type, cert_pem_file, key_pem_file): given is the argument list
ContextCreate ==
   \E type \in ContextTypes, queue \in ErrQueue :
   \E given \in {<<type>>} \cup {<<type, f>> : f \in PemFiles}
                \cup {<<type, f, g>> : f \in PemFiles, g \in PemFiles} :
   \E alloc \in CallOutcomes, cert \in CallOutcomes, key \in CallOutcomes :
      LET cert_pem_file == IF Len(given) >= 2 THEN given[2] ELSE NoFile
          key_pem_file == IF Len(given) = 3 THEN given[3] ELSE cert_pem_file
          env == [key |-> key, cert |-> cert, alloc |-> alloc]
      IN Constructed("context_t",
                     context_create(queue, cert_pem_file, key_pem_file, env),
                     given, queue)

ContextNext ==
   \/ ContextDefault
   \/ ContextCreate

ContextSpec == Init /\ [][ContextNext]_vars

(***************************************************************************)
(* The caller's loop send_msg(socket, msg, bytes_sent) of the echo client  *)
(***************************************************************************)
\* a message of n bytes; byte i carries the value i
Msg(n) == [i \in 1..n |-> i]

\* send() offering the whole buffer again, whatever the index
offered_restart(buffer, index) == buffer

\* the bytes send() offers the transport: buffer + index, len - index
offered(buffer, index) == SubSeq(buffer, index + 1, Len(buffer))

\* the number of bytes the transport took in a send() that drew t and came
\* back as r
taken(r, t) ==
   IF "send" \in r.w.calls \ r.w.fails THEN t[1]
   ELSE IF "SSL_write_ex" \in r.w.calls /\ t[2] = SSL_ERROR_NONE THEN t[3]
   ELSE 0

\* the event the helper wait_event(socket, status) waits for
wait_for(status) ==
   IF want_read(status) THEN "recv_ready" ELSE "send_ready"

\* send_msg() is entered: status, index and bytes_sent are initialised
SendMsgCall(id) ==
   /\ loop.pc # "loop"
   /\ \E n \in 0..MaxMsg :
         loop' = [NotSending EXCEPT !.id = id, !.pc = "loop", !.msg = Msg(n)]
   /\ UNCHANGED <<obj, heap, fds, ssl, counter, last, live, stale, thread,
                  issued, file, contexts, spin>>

\* one pass through the body of the loop: send(msg, index, count), after a
\* would-block wait_event() and status.clear(), then bytes_sent += count
SendMsgIterate ==
   /\ loop.pc = "loop"
   /\ ok(loop.status) /\ loop.index < Len(loop.msg)
   /\ LET id == loop.id
          len == Len(loop.msg)
      IN \E t \in Transport(id, len - loop.index,
                            SendOutcomes(len - loop.index)) :
         LET env == [Env0 EXCEPT !.io = t[1], !.tls = t[2], !.k = t[3]]
             r == send(World, id, len, loop.index, env)
             event == wait_for(r.status)
             advanced(w, st) ==
                /\ Store([w |-> w])
                /\ live' = live
                /\ thread' = thread
                /\ issued' = issued
                /\ spin' = spin
                /\ contexts' = contexts
                /\ file' = file
                /\ loop' = [loop EXCEPT
                      !.index = r.index,
                      !.bytes_sent = @ + r.bytes,
                      !.status = st,
                      !.handed = @ \o SubSeq(offered(loop.msg, loop.index),
                                             1, taken(r, t))]
                /\ last' = [Result("send", id, r) EXCEPT !.len = len,
                               !.index = loop.index, !.newindex = r.index,
                               !.bytes = r.bytes,
                               !.io = IF obj[id].ssl_ # Null THEN t[3]
                                                            ELSE t[1]]
         IN IF nok(r.status) /\ would_block(r.status)
            THEN \E out \in PollOutcomes(r.w, r.w.obj[id].handle_,
                                         set_events(event), MaxWait) :
                    advanced(wait_event(r.w, id, event, MaxWait, out).w,
                             clear(r.status))
            ELSE advanced(r.w, r.status)

\* the loop condition fails: send_msg() returns status
SendMsgReturn ==
   /\ loop.pc = "loop"
   /\ ~(ok(loop.status) /\ loop.index < Len(loop.msg))
   /\ loop' = [loop EXCEPT !.pc = "done"]
   /\ UNCHANGED <<obj, heap, fds, ssl, counter, last, live, stale, thread,
                  issued, file, contexts, spin>>

\* a client that connects, sends messages with send_msg() and disconnects
SendMsgNext ==
   \/ \E id \in Callers : loop.pc # "loop" /\ Connect(id)
   \/ \E id \in Callers : loop.pc # "loop" /\ Disconnect(id)
   \/ \E id \in Callers : SendMsgCall(id)
   \/ SendMsgIterate
   \/ SendMsgReturn

SendMsgSpec == Init /\ [][SendMsgNext]_vars

(***************************************************************************)
(* rmlib::status_t, the generic status of status.h: [errno_, reason_]      *)
(***************************************************************************)
\* strerror(err)
error_text(err) ==
   CASE err = ENOENT -> "No such file or directory"
     [] OTHER        -> strerror_s(err)

\* the value stored as given, the failure sentinel included
stored_raw(err, lasterr) == err

\* err == NOK ? last_error() : err, while errno is lasterr
stored(err, lasterr) == IF err = NOTOK THEN lasterr ELSE err

\* status_base_t()
base_default == [errno_ |-> 0, reason_ |-> ""]

\* status_base_t(err) and status_base_t(err, reason)
status_base_t(err, text, lasterr) ==
   [errno_ |-> stored(err, lasterr), reason_ |-> text]

\* operator=(err)
base_assign(st, err, lasterr) ==
   [errno_ |-> stored(err, lasterr), reason_ |-> ""]

\* reset(err) and reset(err, reason)
base_reset(st, err, text, lasterr) ==
   [errno_ |-> stored(err, lasterr), reason_ |-> text]

\* clear(): reason_ keeps its text
base_clear(st) == [st EXCEPT !.errno_ = OK]

base_ok(st) == st.errno_ = OK
base_nok(st) == ~base_ok(st)
base_error(st) == st.errno_

\* reason()
base_reason(st) ==
   IF st.errno_ # OK
   THEN IF st.reason_ # "" THEN st.reason_ ELSE error_text(st.errno_)
   ELSE "No errors detected"

BaseErrors == {OK, NOTOK, ENOENT, EBADF}
OsErrors == {0, ENOENT, EBADF}
Reasons == {"cannot open the file", "No errors detected"}
BaseOps == {"base_default", "base_construct", "base_assign", "base_reset",
            "base_clear"}

\* the arguments of a call that takes err and may take a reason, while errno
\* is lasterr, and the status it was applied to
BaseInput(err, given, lasterr, was) ==
   [lasterr |-> lasterr, given |-> given, was |-> was, err |-> err]

\* status_t status;
BaseDefault ==
   Built("base_default", base_default,
         BaseInput(OK, <<>>, 0, base_default))

\* status_t status{err}; or status_t status{err, reason};
BaseConstruct ==
   \E err \in BaseErrors, given \in {<<>>} \cup {<<r>> : r \in Reasons},
      lasterr \in OsErrors :
      Built("base_construct",
            status_base_t(err, IF given = <<>> THEN "" ELSE given[1], lasterr),
            BaseInput(err, given, lasterr, base_default))

\* status = err; on the status built last
BaseAssign ==
   /\ last.op \in BaseOps
   /\ \E err \in BaseErrors, lasterr \in OsErrors :
         Built("base_assign", base_assign(last.status, err, lasterr),
               BaseInput(err, <<>>, lasterr, last.status))

\* status.reset(err); or status.reset(err, reason);
BaseReset ==
   /\ last.op \in BaseOps
   /\ \E err \in BaseErrors, given \in {<<>>} \cup {<<r>> : r \in Reasons},
         lasterr \in OsErrors :
         Built("base_reset",
               base_reset(last.status, err,
                          IF given = <<>> THEN "" ELSE given[1], lasterr),
               BaseInput(err, given, lasterr, last.status))

\* status.clear();
BaseClear ==
   /\ last.op \in BaseOps
   /\ Built("base_clear", base_clear(last.status),
            BaseInput(OK, <<>>, 0, last.status))

BaseNext ==
   \/ BaseDefault
   \/ BaseConstruct
   \/ BaseAssign
   \/ BaseReset
   \/ BaseClear

BaseSpec == Init /\ [][BaseNext]_vars

(***************************************************************************)
(* ip::address_resolution of a "host:port" string; a string is the         *)
(* sequence of its characters                                              *)
(***************************************************************************)
npos == -1

\* std::string::find_last_of(c)
find_last_of(str, c) ==
   IF \E i \in 1..Len(str) : str[i] = c
   THEN (CHOOSE i \in 1..Len(str) :
            str[i] = c /\ \A j \in (i + 1)..Len(str) : str[j] # c) - 1
   ELSE npos

\* std::string::find_first_of(c): the 0-based position of the first c
RECURSIVE find_from(_, _, _)
find_from(str, c, pos) ==
   IF pos >= Len(str) THEN npos
   ELSE IF str[pos + 1] = c THEN pos
   ELSE find_from(str, c, pos + 1)

find_first_of(str, c) == find_from(str, c, 0)

\* std::string::substr(pos, n) and substr(pos), pos 0-based
substr(str, pos, n) ==
   [i \in 1..(IF pos + n > Len(str) THEN Len(str) - pos ELSE n) |->
      str[pos + i]]
substr_from(str, pos) == substr(str, pos, Len(str) - pos)

\* getaddrinfo(host, port, &hints, &addr): out is what the resolver answers
getaddrinfo(host, port, out) ==
   [calls |-> <<[host |-> host, port |-> port]>>, ret |-> out.ret,
    addr |-> out.addr]

\* address_resolution(host, port, address_list): [status, address_list, calls]
address_resolution_host_port(host, port, address_list, out) ==
   LET r == getaddrinfo(host, port, out)
   IN [calls |-> r.calls, status |-> status_int(r.ret, "io", 0),
       address_list |-> IF r.ret = 0 THEN r.addr ELSE address_list]

\* address_resolution(host_and_port, address_list)
address_resolution(host_and_port, address_list, out) ==
   LET separator_pos == find_first_of(host_and_port, ":")
   IN IF separator_pos # npos
      THEN address_resolution_host_port(
              substr(host_and_port, 0, separator_pos),
              substr_from(host_and_port, separator_pos + 1),
              address_list, out)
      ELSE [calls |-> <<>>, status |-> status_int(WSAEINVAL, "io", 0),
            address_list |-> address_list]

Chars == {"h", "4", ":"}
Strings == UNION {[1..n -> Chars] : n \in 0..MaxUrl}
\* what the resolver can answer: addresses, or an EAI_ error code
ResolverOutcomes ==
   {[ret |-> 0, addr |-> <<1>>], [ret |-> 0, addr |-> <<1, 2>>],
    [ret |-> -2, addr |-> <<>>]}

\* the address list the caller hands in: empty, or left by an earlier call
HeldLists == {<<>>, <<3>>}

\* status = address_resolution(url, address_list)
AddressResolution ==
   /\ last.op = "init"
   /\ \E url \in Strings, held \in HeldLists, out \in ResolverOutcomes :
         LET r == address_resolution(url, held, out)
         IN Built("address_resolution", r.status,
                  [given |-> <<url>>, was |-> held,
                   address_list |-> r.address_list, resolved |-> r.calls])

AddressNext == AddressResolution

AddressSpec == Init /\ [][AddressNext]_vars

(***************************************************************************)
(* file_t of fileio.h over one file of the file system.  f holds the      *)
(* members fd_ and type_, and what the OS keeps for the file and its open  *)
(* descriptor: whether it exists, its bytes (data) and the file offset     *)
(* (pos); consumed counts the bytes read since the file was opened.        *)
(***************************************************************************)
TheFd == 3

\* lseek(fd, offset, whence): [f, ret]
os_lseek(f, offset, whence) ==
   LET to == CASE whence = "begin"   -> offset
               [] whence = "current" -> f.pos + offset
               [] whence = "end"     -> Len(f.data) + offset
   IN IF f.fd_ = INVALID_HANDLE_VALUE \/ to < 0
      THEN [ret |-> -1, f |-> f]
      ELSE [ret |-> to, f |-> [f EXCEPT !.pos = to]]

\* ::write(fd, buffer, size) that takes out bytes of the buffer (out < 0: it
\* fails with errno -out).  A descriptor opened O_APPEND moves to the end of
\* the file first; the bytes go in at the offset and the offset moves on.
os_write(f, buffer, out) ==
   LET at == IF f.type_ = "append" THEN Len(f.data) ELSE f.pos
       k == out
       put == [i \in 1..(IF at + k > Len(f.data) THEN at + k ELSE Len(f.data))
                 |-> IF i > at /\ i <= at + k THEN buffer[i - at]
                     ELSE IF i <= Len(f.data) THEN f.data[i] ELSE 0]
   IN IF f.fd_ = INVALID_HANDLE_VALUE \/ f.type_ = "read"
      THEN [ret |-> -1, errno |-> EBADF, f |-> f]
      ELSE IF out < 0
      THEN [ret |-> -1, errno |-> -out, f |-> f]
      ELSE [ret |-> k, errno |-> 0,
            f |-> [f EXCEPT !.data = put, !.pos = at + k]]

\* ::read(fd, buffer, size): [f, ret, errno, bytes]
os_read(f, size) ==
   LET n == IF f.pos >= Len(f.data) THEN 0
            ELSE IF f.pos + size > Len(f.data) THEN Len(f.data) - f.pos
            ELSE size
   IN IF f.fd_ = INVALID_HANDLE_VALUE \/ f.type_ = "write"
      THEN [ret |-> -1, errno |-> EBADF, f |-> f, bytes |-> <<>>]
      ELSE [ret |-> n, errno |-> 0,
            f |-> [f EXCEPT !.pos = @ + n, !.consumed = @ + n],
            bytes |-> SubSeq(f.data, f.pos + 1, f.pos + n)]

\* status.reset(fileio::last_error(), fileio::last_error_message())
file_error(errno) == base_reset(base_default, errno, strerror_s(errno), errno)

\* file_t::seek(offset, mode): [f, status]
file_seek(f, offset, mode) ==
   LET r == os_lseek(f, offset, mode)
   IN [f |-> r.f,
       status |-> IF r.ret = -1 THEN file_error(EBADF) ELSE base_default]

\* file_t::tell(): 0 when lseek fails
file_tell(f) ==
   LET r == os_lseek(f, 0, "current")
   IN IF r.ret # -1 THEN r.ret ELSE 0

is_append(f) == f.type_ = "append"
seek_end(f) == file_seek(f, 0, "end")

\* save_pos(saved_pos): [f, status, saved_pos]
save_pos(f, saved_pos) ==
   IF is_append(f)
   THEN [f |-> seek_end(f).f, status |-> seek_end(f).status,
         saved_pos |-> file_tell(f)]
   ELSE [f |-> f, status |-> base_default, saved_pos |-> saved_pos]

\* restore_pos() that leaves the offset where write() put it
restore_pos_none(f, saved_pos) == [f |-> f, status |-> base_default]

\* restore_pos(saved_pos): [f, status]
restore_pos(f, saved_pos) ==
   IF is_append(f) THEN file_seek(f, saved_pos, "begin")
   ELSE [f |-> f, status |-> base_default]

\* file_t::write(buffer, size, bytes_written): [f, status, bytes_written]
file_write(f, buffer, out) ==
   LET written(s, w) ==
          IF w.ret < 0
          THEN [f |-> restore_pos(w.f, s.saved_pos).f,
                status |-> file_error(w.errno), bytes_written |-> 0]
          ELSE [f |-> restore_pos(w.f, s.saved_pos).f,
                status |-> restore_pos(w.f, s.saved_pos).status,
                bytes_written |-> w.ret]
       sought(s, e) ==
          IF base_nok(e.status)
          THEN [f |-> e.f, status |-> e.status, bytes_written |-> 0]
          ELSE written(s, os_write(e.f, buffer, out))
       saved(s) ==
          IF base_nok(s.status)
          THEN [f |-> s.f, status |-> s.status, bytes_written |-> 0]
          ELSE IF f.type_ = "append" THEN sought(s, seek_end(s.f))
          ELSE written(s, os_write(s.f, buffer, out))
   IN saved(save_pos(f, 0))

\* file_t::read(buffer, size, bytes_read): [f, status, bytes]
file_read(f, size) ==
   LET r == os_read(f, size)
   IN [f |-> r.f, bytes |-> r.bytes,
       status |-> IF r.ret < 0 THEN file_error(r.errno) ELSE base_default]

\* file_t::close(): flush, ::close, fd_ = INVALID_HANDLE_VALUE
file_close(f) ==
   [f |-> [f EXCEPT !.fd_ = INVALID_HANDLE_VALUE, !.pos = 0, !.consumed = 0],
    status |-> base_default]

\* file_t::open(path, mode, type): close(), then ::open with the flags of
\* mode and type; a new descriptor starts at offset 0
file_open(f, mode, type) ==
   LET c == file_close(f).f
       fails == \/ mode = "open_existing" /\ ~c.exists
                \/ mode = "create_new" /\ c.exists
   IN IF fails
      THEN [f |-> c,
            status |-> file_error(IF c.exists THEN EEXIST ELSE ENOENT)]
      ELSE [f |-> [c EXCEPT !.fd_ = TheFd, !.type_ = type, !.exists = TRUE,
                      !.data = IF mode = "create_always" THEN <<>> ELSE @],
            status |-> base_default]

OpenModes == {"open_existing", "create_new", "create_always"}
OpenTypes == {"read", "write", "read_write", "append"}

\* the caller's buffer of size bytes; the bytes carry fresh values
Buffer(f, size) == [i \in 1..size |-> Len(f.data) + i]

\* what ::write can do with size bytes: take some of them, or fail
WriteOutcomes(size) == (0..size) \cup {-ENOSPC}

\* the file after a call of file_t, and what the call returned
FileDone(op, r, in) ==
   /\ file' = r.f
   /\ last' = [Result(op, "s", [w |-> World, status |-> r.status])
                  EXCEPT !.in = in]
   /\ UNCHANGED <<obj, heap, fds, ssl, counter, live, stale, thread, issued,
                  loop, contexts, spin>>

FileOpen ==
   \E mode \in OpenModes, type \in OpenTypes :
      FileDone("file_open", file_open(file, mode, type),
               [given |-> <<mode, type>>, was |-> file])

FileClose ==
   /\ file.fd_ # INVALID_HANDLE_VALUE
   /\ FileDone("file_close", file_close(file), [given |-> <<>>, was |-> file])

FileWrite ==
   \E size \in 1..2 :
      /\ Len(file.data) + size <= MaxFile
      /\ \E out \in WriteOutcomes(size) :
            LET r == file_write(file, Buffer(file, size), out)
            IN FileDone("file_write", r,
                        [out |-> out, given |-> <<Buffer(file, size)>>,
                         was |-> file, bytes_written |-> r.bytes_written])

FileRead ==
   \E size \in 1..2 :
      LET r == file_read(file, size)
      IN FileDone("file_read", r,
                  [bytes |-> r.bytes, given |-> <<size>>, was |-> file])

FileNext ==
   \/ FileOpen
   \/ FileClose
   \/ FileWrite
   \/ FileRead

FileSpec == Init /\ [][FileNext]_vars

(***************************************************************************)
(* send_msg() a call at a time, over a connection that stays failed once   *)
(* ::send has reported that the peer reset it                              *)
(***************************************************************************)
\* the last ::send failed with ECONNRESET: so will every later one
Broken ==
   last.op = "send" /\ "send" \in last.fails /\ last.io = -ECONNRESET

\* status = socket.send(msg, index, count); when it is would-block the body
\* goes on to wait_event(), otherwise to bytes_sent += count
RetrySend ==
   /\ loop.pc = "loop"
   /\ ok(loop.status) /\ loop.index < Len(loop.msg)
   /\ LET id == loop.id
          len == Len(loop.msg)
      IN \E t \in IF Broken THEN {<<-ECONNRESET, SSL_ERROR_NONE, 1>>}
                  ELSE Transport(id, len - loop.index,
                                 SendOutcomes(len - loop.index)) :
         LET env == [Env0 EXCEPT !.io = t[1], !.tls = t[2], !.k = t[3]]
             r == send(World, id, len, loop.index, env)
         IN /\ Store(r)
            /\ live' = live
            /\ thread' = thread
            /\ issued' = issued
            /\ spin' = spin
            /\ contexts' = contexts
            /\ file' = file
            /\ loop' = [loop EXCEPT
                  !.index = r.index,
                  !.bytes_sent = @ + r.bytes,
                  !.status = r.status,
                  !.pc = IF nok(r.status) /\ would_block(r.status)
                         THEN "wait" ELSE "loop",
                  !.handed = @ \o SubSeq(offered(loop.msg, loop.index),
                                         1, taken(r, t))]
            /\ last' = [Result("send", id, r) EXCEPT !.len = len,
                           !.index = loop.index, !.newindex = r.index,
                           !.bytes = r.bytes,
                           !.io = IF obj[id].ssl_ # Null THEN t[3] ELSE t[1]]

\* wait_event(socket, status); status.clear(); and back to the loop test
RetryWait ==
   /\ loop.pc = "wait"
   /\ LET id == loop.id
          event == wait_for(loop.status)
      IN \E out \in PollOutcomes(World, obj[id].handle_, set_events(event),
                                 MaxWait) :
            /\ Store(wait_event(World, id, event, MaxWait, out))
            /\ live' = live
            /\ thread' = thread
            /\ issued' = issued
            /\ spin' = spin
            /\ contexts' = contexts
            /\ file' = file
            /\ loop' = [loop EXCEPT !.status = clear(@), !.pc = "loop"]
            /\ last' = last

RetryNext ==
   \/ \E id \in Callers : loop.pc \in {"ready", "done"} /\ Connect(id)
   \/ \E id \in Callers : loop.pc # "wait" /\ SendMsgCall(id)
   \/ RetrySend
   \/ RetryWait
   \/ SendMsgReturn

\* every statement of send_msg() that can run does run
RetrySpec ==
   /\ Init /\ [][RetryNext]_vars
   /\ WF_vars(RetrySend) /\ WF_vars(RetryWait) /\ WF_vars(SendMsgReturn)

(***************************************************************************)
(* A client that connects, sends, receives, waits for readiness and        *)
(* disconnects                                                             *)
(***************************************************************************)
IoNext ==
   \/ \E id \in Callers : Connect(id)
   \/ \E id \in Callers : Disconnect(id)
   \/ \E id \in Callers : Send(id)
   \/ \E id \in Callers : Recv(id)
   \/ \E id \in Callers : WaitEvent(id)

IoSpec == Init /\ [][IoNext]_vars

(***************************************************************************)
(* tls::context_t objects over their lives: construction, moves and        *)
(* destruction, with the SSL_CTX objects they allocate and release         *)
(***************************************************************************)
\* SSL_CTX_free(p).  Releasing a configuration that was released already is
\* a use of freed memory: the program may abort or go on.
SSL_CTX_free(t, p) ==
   [t EXCEPT !.conf[p] = IF @ = "held" THEN "freed" ELSE "twice"]

\* ~context_t(): if (ctx_) { SSL_CTX_free(ctx_); ctx_ = nullptr; }
context_destroy(t, i) ==
   LET gone(t1) == [t1 EXCEPT !.ctx[i] = Null, !.alive = @ \ {i}]
   IN IF t.ctx[i] # Null THEN gone(SSL_CTX_free(t, t.ctx[i])) ELSE gone(t)

\* context_t(context_t&&) = default: memberwise, the pointer is copied and
\* the source keeps its own
context_move(t, dst, src) ==
   [t EXCEPT !.ctx[dst] = t.ctx[src], !.alive = @ \cup {dst}]

\* the contexts after a constructor whose create() went as c says, with p
\* the SSL_CTX that SSL_CTX_new returns when it succeeds
context_construct(t, i, c, p) ==
   LET allocated == "SSL_CTX_new" \notin c.fails
   IN [t EXCEPT !.alive = @ \cup {i},
                !.ctx[i] = IF c.ctx_ # Null THEN p ELSE Null,
                !.conf[p] = IF ~allocated THEN @
                            ELSE IF c.ctx_ # Null THEN "held" ELSE "freed"]

\* how create() can go: with or without a certificate file, under every
\* outcome of the engine calls
CreateOutcomes ==
   {context_create(queue, f, f, [key |-> key, cert |-> cert, alloc |-> alloc]) :
       queue \in ErrQueue, f \in {NoFile, "cert.pem"},
       alloc \in CallOutcomes, cert \in CallOutcomes, key \in CallOutcomes}

CtxDone(t) ==
   /\ \E abort \in IF \E p \in Confs : t.conf[p] = "twice" /\ contexts.conf[p] # "twice"
                    THEN BOOLEAN ELSE {FALSE} :
         contexts' = [t EXCEPT !.aborted = abort]
   /\ UNCHANGED <<obj, heap, fds, ssl, counter, last, live, stale, thread,
                  issued, loop, file, spin>>

\* context_t ctx; in slot i
CtxDefault(i) ==
   /\ ~contexts.aborted /\ i \notin contexts.alive
   /\ CtxDone([contexts EXCEPT !.alive = @ \cup {i}])

\* context_t ctx(type, ...); in slot i
CtxConstruct(i) ==
   /\ ~contexts.aborted /\ i \notin contexts.alive
   /\ \E p \in Confs :
         /\ contexts.conf[p] = "none"
         /\ \A q \in Confs : q < p => contexts.conf[q] # "none"
         /\ \E c \in CreateOutcomes :
               CtxDone(context_construct(contexts, i, c, p))

\* context_t dst(std::move(src));
CtxMoveConstruct(dst, src) ==
   /\ ~contexts.aborted
   /\ dst \notin contexts.alive /\ src \in contexts.alive
   /\ CtxDone(context_move(contexts, dst, src))

\* dst = std::move(src);
CtxMoveAssign(dst, src) ==
   /\ ~contexts.aborted
   /\ dst \in contexts.alive /\ src \in contexts.alive
   /\ CtxDone(context_move(contexts, dst, src))

\* the context in slot i goes out of scope
CtxDestroy(i) ==
   /\ ~contexts.aborted /\ i \in contexts.alive
   /\ CtxDone(context_destroy(contexts, i))

LifeNext ==
   \/ \E i \in CtxSlots : CtxDefault(i)
   \/ \E i \in CtxSlots : CtxConstruct(i)
   \/ \E dst \in CtxSlots, src \in CtxSlots : CtxMoveConstruct(dst, src)
   \/ \E dst \in CtxSlots, src \in CtxSlots : CtxMoveAssign(dst, src)
   \/ \E i \in CtxSlots : CtxDestroy(i)

LifeSpec == Init /\ [][LifeNext]_vars

(***************************************************************************)
(* A client that connects, asks whether the peer's certificate verified    *)
(* and disconnects                                                         *)
(***************************************************************************)
VerifyResults == {X509_V_OK, X509_V_ERR}

VerifyPeer(id) ==
   \E presented \in BOOLEAN, result \in VerifyResults :
      /\ UNCHANGED <<obj, heap, fds, ssl, counter, live, stale, thread, issued,
                     loop, file, contexts, spin>>
      /\ last' = [Result("verify_peer_certificate", id,
                         [w |-> World, status |-> status_default]) EXCEPT
                     !.in = [ret |-> verify_peer_certificate(World, id,
                                                             presented, result),
                             presented |-> presented, result |-> result,
                             given |-> <<>>]]

VerifyNext ==
   \/ \E id \in Callers : Connect(id)
   \/ \E id \in Callers : Disconnect(id)
   \/ \E id \in Callers : VerifyPeer(id)

VerifySpec == Init /\ [][VerifyNext]_vars

(***************************************************************************)
(* spin_lock_t and spin_guard_t of utility.h under threads that lock and   *)
(* unlock, directly or through a guard                                     *)
(***************************************************************************)
\* flag_.test_and_set() that reports the flag clear whatever it held
test_and_set_blind(flag) == [was |-> FALSE, flag |-> TRUE]

\* flag_.test_and_set(std::memory_order_acquire): one atomic step that sets
\* the flag and returns what it held
test_and_set(flag) == [was |-> flag, flag |-> TRUE]

\* flag_.clear(std::memory_order_release)
flag_clear(flag) == FALSE

SpinDone(s) ==
   /\ spin' = s
   /\ UNCHANGED <<obj, heap, fds, ssl, counter, last, live, stale, thread,
                  issued, loop, file, contexts>>

\* thread t calls lock()
LockCall(t) ==
   /\ spin.at[t] = "out"
   /\ SpinDone([spin EXCEPT !.at[t] = "test_and_set"])

\* thread t declares spin_guard_t guard(lock): the constructor calls lock()
GuardEnter(t) ==
   /\ spin.at[t] = "out"
   /\ SpinDone([spin EXCEPT !.at[t] = "test_and_set", !.guard[t] = TRUE])

\* the loop test of lock(): while (flag_.test_and_set(...)); lock() returns
\* when the flag was clear
LockTest(t) ==
   /\ spin.at[t] = "test_and_set"
   /\ LET r == test_and_set(spin.flag_)
      IN SpinDone([spin EXCEPT !.flag_ = r.flag,
                               !.at[t] = IF r.was THEN "yield" ELSE "in"])

\* std::this_thread::yield(); and back to the loop test
LockYield(t) ==
   /\ spin.at[t] = "yield"
   /\ SpinDone([spin EXCEPT !.at[t] = "test_and_set"])

\* thread t, which locked directly, calls unlock()
Unlock(t) ==
   /\ spin.at[t] = "in" /\ ~spin.guard[t]
   /\ SpinDone([spin EXCEPT !.flag_ = flag_clear(@), !.at[t] = "out"])

\* the scope of the guard of thread t ends: ~spin_guard_t calls unlock()
GuardLeave(t) ==
   /\ spin.at[t] = "in" /\ spin.guard[t]
   /\ SpinDone([spin EXCEPT !.flag_ = flag_clear(@), !.at[t] = "out",
                            !.guard[t] = FALSE])

SpinNext ==
   \/ \E t \in SpinThreads : LockCall(t)
   \/ \E t \in SpinThreads : GuardEnter(t)
   \/ \E t \in SpinThreads : LockTest(t)
   \/ \E t \in SpinThreads : LockYield(t)
   \/ \E t \in SpinThreads : Unlock(t)
   \/ \E t \in SpinThreads : GuardLeave(t)

SpinSpec == Init /\ [][SpinNext]_vars

(***************************************************************************)
(* Properties                                                              *)
(***************************************************************************)
Self == obj[last.id]
WantCodes == {SSL_ERROR_WANT_READ, SSL_ERROR_WANT_WRITE}
Released ==
   /\ Self.state_ = "idle"
   /\ Self.handle_ = INVALID_SOCKET
   /\ \A h \in Handles : fds[h] = "closed"

\* C1: when a step of connect() fails (socket creation, ::connect, the mode
\* change, or a fatal handshake step) connect() returns a status that is not
\* ok and the socket is idle with its handle released, on every attempt.
C1_ConnectFailureReturnsToIdle ==
   (/\ last.op = "connect"
    /\ last.pre.state_ \in {"idle", "connecting"}
    /\ last.fails \cap {"socket", "connect", "ioctl", "SSL_connect"} # {})
   => (nok(last.status) /\ Released)

\* C2: connect() on an idle socket (or a repeated connect() on a connecting
\* one) whose OS steps all succeed leaves a plain socket connected; a TLS
\* socket is connecting while the handshake step reports want-read or
\* want-write and is connected exactly when the step reports done; as long
\* as the handshake reports one of these the state is connecting or
\* connected.
C2_ConnectSuccessPath ==
   (/\ last.op = "connect"
    /\ last.pre.state_ \in {"idle", "connecting"}
    /\ last.fails \cap {"socket", "connect", "ioctl"} = {})
   => /\ last.pre.ctx_ = Null => Self.state_ = "connected"
      /\ last.pre.ctx_ # Null =>
            /\ "SSL_connect" \in last.calls
            /\ last.tls \in WantCodes => Self.state_ = "connecting"
            /\ Self.state_ = "connected" <=> last.tls = SSL_ERROR_NONE
            /\ last.tls \in WantCodes \cup {SSL_ERROR_NONE}
                  => Self.state_ \in {"connecting", "connected"}

\* a TLS connect() that found the socket connecting and completed the
\* handshake
C2_Witness ==
   /\ last.op = "connect"
   /\ last.pre.state_ = "connecting"
   /\ last.tls = SSL_ERROR_NONE
   /\ Self.state_ = "connected"

\* C3: connect() on a connecting socket creates no handle and issues no
\* ::connect, it runs one handshake step; connect() in any other non-idle
\* state returns the already-in-progress status and changes nothing.
C3_ConnectWhenNotIdle ==
   last.op = "connect" =>
      /\ last.pre.state_ = "connecting" =>
            /\ "SSL_connect" \in last.calls
            /\ last.calls \cap {"socket", "connect", "ioctl", "SSL_new"} = {}
            /\ Self.handle_ \in {last.pre.handle_, INVALID_SOCKET}
      /\ last.pre.state_ \notin {"idle", "connecting"} =>
            /\ last.status = Status(WSAEALREADY, "io")
            /\ nok(last.status)
            /\ last.calls = {}
            /\ Self = last.pre

\* connect() called on a connected socket and rejected
C3_Witness ==
   /\ last.op = "connect"
   /\ last.pre.state_ = "connected"
   /\ last.status.error_ = WSAEALREADY
   /\ Self.state_ = "connected"

\* connect() called again while the handshake is pending
C3_WitnessConnecting ==
   /\ last.op = "connect"
   /\ last.pre.state_ = "connecting"
   /\ "SSL_connect" \in last.calls

\* C4: listen() on an idle socket whose OS steps all succeed returns ok with
\* the socket listening, a fresh non-zero uid and the requested mode; a
\* listen() that returns ok never leaves the socket in state created.
C4_ListenReachesListening ==
   (last.op = "listen" /\ last.pre.state_ = "idle" /\ last.fails = {})
   => /\ ok(last.status)
      /\ Self.state_ = "listening"
      /\ Self.uid_ # 0
      /\ Self.mode_ = last.mode

\* C5: accept() on a socket that is idle, created, connecting or connected
\* returns a status that is not ok, performs no ::accept and leaves the
\* out_socket unchanged.
C5_AcceptOnlyWhenListening ==
   (/\ last.op = "accept"
    /\ last.pre.state_ \in {"idle", "created", "connecting", "connected"})
   => /\ nok(last.status)
      /\ "accept" \notin last.calls
      /\ obj["c"] = last.client

\* C6: once listen() has returned ok on a socket that owns a TLS context, an
\* accept() on it leaves the parent accepting (handshake pending) or
\* listening, and the out_socket is connected only if its server-side
\* handshake was run and reported done.
C6_TlsAcceptStates ==
   [][(/\ last.op = "listen"
       /\ ok(last.status)
       /\ obj[last.id].ctx_ # Null
       /\ last'.op = "accept")
      => /\ obj'[last'.id].state_ \in {"accepting", "listening"}
         /\ (obj'["c"].state_ = "connected" /\ obj'["c"] # obj["c"])
               => ("SSL_accept" \in last'.calls /\ last'.tls = SSL_ERROR_NONE)]_vars

\* C7: once listen() has returned ok, an accept() that does not hand out a
\* client (its handshake failed, or nothing could be accepted) leaves the
\* parent with its handle and in state listening, ready for a later accept().
C7_ParentKeepsListening ==
   [][(/\ last.op = "listen"
       /\ ok(last.status)
       /\ last'.op = "accept"
       /\ nok(last'.status))
      => /\ obj'[last'.id].handle_ # INVALID_SOCKET
         /\ obj'[last'.id].handle_ = obj[last.id].handle_
         /\ obj'[last'.id].state_ = "listening"]_vars

\* C8: send() and recv() on a socket that is not connected return the
\* not-connected status and make no OS or TLS send/receive call, for every
\* buffer length and index.
C8_NotConnectedRejected ==
   (last.op \in {"send", "recv"} /\ last.pre.state_ # "connected")
   => /\ last.status = Status(WSAENOTCONN, "io")
      /\ last.calls \cap {"send", "recv", "SSL_write_ex", "SSL_read_ex"} = {}

\* the transport of the last recv() reported orderly closure / would-block
PeerClosed ==
   \/ "recv" \in last.calls /\ last.io = 0
   \/ "SSL_read_ex" \in last.calls /\ last.tls = SSL_ERROR_ZERO_RETURN
WouldBlock ==
   \/ "recv" \in last.calls /\ last.io = -WSAEWOULDBLOCK
   \/ "SSL_read_ex" \in last.calls /\ last.tls \in WantCodes

C10_DisconnectReleases ==
   last.op = "disconnect" =>
      /\ Released
      /\ Self.ssl_ = Null
      /\ \A x \in Sessions : ssl[x] = "free"

\* what ::shutdown and SSL_shutdown reported to the last disconnect()
OsShutdownFailed == "shutdown" \in last.fails
TlsShutdownFailed == "SSL_shutdown" \in last.calls /\ last.tls # SSL_ERROR_NONE

C12_DisconnectIdleIsNoOp ==
   (last.op = "disconnect" /\ last.pre.state_ = "idle")
   => /\ ok(last.status)
      /\ last.calls = {}
      /\ Self.state_ = "idle"
      /\ Self.handle_ = INVALID_SOCKET
      /\ Self.ssl_ = Null

\* a disconnect() on a socket that an earlier disconnect() had already closed
C12_Witness ==
   /\ last.op = "disconnect"
   /\ last.pre.state_ = "idle"
   /\ last.pre.ref_count_ = Null
   /\ counter > 1
   /\ ok(last.status)

\* C13: when the poll issued by wait_event() fails, the returned status is
\* not ok and not a would-block status (its classification is io or fatal
\* and it carries the OS error), for every event kind.
C13_PollFailureIsNotWouldBlock ==
   (last.op = "wait_event" /\ last.in.ret = SOCKET_ERROR)
   => /\ nok(last.status)
      /\ ~would_block(last.status)
      /\ last.status.code_ \in {"io", "fatal"}
      /\ last.status.error_ = last.in.errno

\* C14: when the poll issued by wait_event() expires with no readiness the
\* returned status is not ok, would_block() holds and the variant matches
\* the event: want_read for recv_ready and accept_ready, want_write for
\* send_ready and connect_ready; without a timeout argument the poll is
\* given timeout 0.
C14_TimeoutIsWouldBlockForEvent ==
   last.op = "wait_event" =>
      /\ last.in.given = <<>> => last.in.timeout = 0
      /\ last.in.given # <<>> => last.in.timeout = last.in.given[1]
      /\ last.in.ret = 0 =>
            /\ nok(last.status)
            /\ would_block(last.status)
            /\ last.status.error_ = WSAEWOULDBLOCK
            /\ last.in.event \in {"recv_ready", "accept_ready"}
                  => last.status.code_ = "want_read"
            /\ last.in.event \in {"send_ready", "connect_ready"}
                  => last.status.code_ = "want_write"

\* a wait_event(send_ready) without a timeout argument, on a connected
\* socket, whose poll expired
C14_Witness ==
   /\ last.op = "wait_event"
   /\ last.pre.state_ = "connected"
   /\ last.in.event = "send_ready"
   /\ last.in.given = <<>>
   /\ last.in.ret = 0
   /\ last.status = Status(WSAEWOULDBLOCK, "want_write")

\* C15: a wait_event(connect_ready) whose poll reports both hang-up and
\* error is classified connection-refused (not ok, not would-block),
\* whatever other flags come with them; it is never reported as ready.
C15_HangupAndErrorIsRefused ==
   (/\ last.op = "wait_event"
    /\ last.in.event = "connect_ready"
    /\ last.in.ret > 0
    /\ {"POLLHUP", "POLLERR"} \subseteq last.in.revents)
   => /\ last.status = Status(WSAECONNREFUSED, "io")
      /\ nok(last.status)
      /\ ~would_block(last.status)

StatusOps == {"status_default", "status_int", "status_ssl", "status_ctx", "clear"}
NoError == "No errors detected"

BuiltFromWouldBlock ==
   \/ last.in.error = WSAEWOULDBLOCK
   \/ last.in.error = SOCKET_ERROR /\ last.in.lasterr = WSAEWOULDBLOCK

\* C17: a status classified want_read or want_write has ok() false and
\* would_block() true; a status built from the OS would-block error, given
\* directly or found in errno behind the return value -1, is want_read with
\* the read hint and want_write with the write hint.
C17_WouldBlockFollowsHint ==
   last.op \in StatusOps =>
      /\ last.status.code_ \in {"want_read", "want_write"}
            => (nok(last.status) /\ would_block(last.status))
      /\ (last.op = "status_int" /\ BuiltFromWouldBlock) =>
            /\ last.in.hint = "want_read" => last.status.code_ = "want_read"
            /\ last.in.hint = "want_write" => last.status.code_ = "want_write"
            /\ last.status.error_ = WSAEWOULDBLOCK

\* status_t{-1, want_write} while errno is the would-block error
C17_Witness ==
   /\ last.op = "status_int"
   /\ last.in.error = SOCKET_ERROR
   /\ last.in.lasterr = WSAEWOULDBLOCK
   /\ last.in.hint = "want_write"
   /\ last.status = Status(WSAEWOULDBLOCK, "want_write")
   /\ would_block(last.status)

\* C18: every status, whichever constructor built it and after clear(), has
\* classification none if and only if its raw error code is 0.
C18_NoneIffNoError ==
   last.op \in StatusOps =>
      (last.status.code_ = "none" <=> last.status.error_ = 0)

\* C19: a status built from a TLS session outcome is fatal when the engine
\* reports a syscall error with a non-empty error queue or an outcome other
\* than none, clean closure, want-read, want-write and syscall error; a
\* syscall error with an empty queue gives the status the raw-OS-error path
\* gives for errno; ok() is false in all of these cases.
C19_TlsOutcomeClassification ==
   last.op = "status_ssl" =>
      /\ (last.in.sslerr = SSL_ERROR_SYSCALL /\ last.in.queue # 0)
            => last.status.code_ = "fatal"
      /\ last.in.sslerr \notin {SSL_ERROR_NONE, SSL_ERROR_ZERO_RETURN,
                                SSL_ERROR_WANT_READ, SSL_ERROR_WANT_WRITE,
                                SSL_ERROR_SYSCALL}
            => last.status.code_ = "fatal"
      /\ (last.in.sslerr = SSL_ERROR_SYSCALL /\ last.in.queue = 0)
            => last.status = status_int(last.in.lasterr, "io", last.in.lasterr)
      /\ last.in.sslerr \in {SSL_ERROR_SYSCALL, SSL_ERROR_SSL}
            => nok(last.status)

OwnOps == {"copy_construct", "copy_assign", "disconnect", "destroy"}

\* C20: over every sequence of copy construction, copy assignment,
\* disconnect() and destruction on the copies of a socket, a handle is closed
\* once, and only when no other live copy still owns it; no live copy holds
\* a handle that was closed or a reference count that was freed.
C20_SharedOwnership ==
   /\ \A i \in live :
         /\ obj[i].handle_ # INVALID_SOCKET => fds[obj[i].handle_] # "closed"
         /\ obj[i].ref_count_ # Null => heap[obj[i].ref_count_] >= 1
   /\ (last.op \in OwnOps /\ "closesocket" \in last.calls) =>
         /\ "closesocket" \notin last.fails
         /\ \A i \in live : obj[i].handle_ # last.pre.handle_

MoveOps == {"move_construct", "move_assign"}

\* the live objects whose ref_count_ is the cell c
Holders(o, lv, c) == {i \in lv : o[i].ref_count_ = c}

\* C21: a move gives the destination every member the source had and leaves
\* the source idle with an invalid handle, uid 0 and no reference count; a
\* count that equalled the number of its holders still does; destroying or
\* disconnecting an object in the moved-from state closes no handle and
\* touches no reference count.
C21_MoveTransfersOwnership ==
   /\ [][last'.op \in MoveOps =>
           LET d == last'.id
               s == last'.in.src
               c == obj[s].ref_count_
           IN /\ obj'[d] = obj[s]
              /\ obj'[s] = NoObject
              /\ (c # Null /\ heap[c] = Cardinality(Holders(obj, live, c)))
                    => heap'[c] = Cardinality(Holders(obj', live', c))]_vars
   /\ [][(last'.op \in {"destroy", "disconnect"} /\ obj[last'.id] = NoObject)
           => /\ "closesocket" \notin last'.calls
              /\ ok(last'.status)
              /\ fds' = fds
              /\ heap' = heap
              /\ ssl' = ssl]_vars

\* a connected TLS socket was moved into a live object by move assignment
C21_Witness ==
   /\ last.op = "move_assign"
   /\ obj[last.id].state_ = "connected"
   /\ obj[last.id].ssl_ # Null
   /\ fds[obj[last.id].handle_] = "connected"
   /\ heap[obj[last.id].ref_count_] = 1
   /\ last.in.src \in live
   /\ obj[last.in.src] = NoObject

\* C22: whenever no thread is inside a constructor or destructor, every
\* reference count equals the number of live objects that hold it, every
\* handle a live object holds is still open, and once no object is left
\* every handle has been closed.
C22_NoLostCountUpdate ==
   Quiet =>
      /\ \A i \in live :
            /\ obj[i].ref_count_ # Null =>
                  heap[obj[i].ref_count_] =
                     Cardinality(Holders(obj, live, obj[i].ref_count_))
            /\ obj[i].handle_ # INVALID_SOCKET =>
                  fds[obj[i].handle_] # "closed"
      /\ live = {} => \A h \in Handles : fds[h] = "closed"

C24_SessionIffContext ==
   \A i \in Copies : (obj[i].ssl_ # Null) <=> (obj[i].ctx_ # Null)

\* C24: every object holds a TLS session exactly when it is bound to a TLS
\* context and its state_ is not idle; an idle object holds none.
C24_SessionIffContextAndNotIdle ==
   \A i \in Copies :
      (obj[i].ssl_ # Null) <=> (obj[i].ctx_ # Null /\ obj[i].state_ # "idle")

\* disconnect() took the session from a connected socket bound to a context
C24_Witness ==
   /\ last.op = "disconnect"
   /\ last.pre.state_ = "connected"
   /\ last.pre.ssl_ # Null
   /\ Self.ctx_ # Null
   /\ Self.state_ = "idle"
   /\ Self.ssl_ = Null

\* C25 as stated: every uid a connect stores is greater than every uid
\* stored before it, in every interleaving.
C25_UidsIncreaseAsStored ==
   \A j \in 1..Len(issued), k \in 1..Len(issued) :
      j < k => issued[j] < issued[k]

\* C25: every uid a connect stores is not 0 and differs from every uid
\* stored before it, whatever became of the socket that held that one; a
\* connected socket holds the uid its connect stored; the counter never
\* goes back, and a connect that draws its uid after another connect has
\* returned gets the greater uid.
C25_UidsUniqueNeverReused ==
   /\ [](/\ \A j \in 1..Len(issued), k \in 1..Len(issued) :
               j # k => issued[j] # issued[k]
         /\ \A j \in 1..Len(issued) : issued[j] # 0 /\ issued[j] < counter
         /\ \A i \in ObjIds :
               obj[i].state_ \in {"connected", "connecting"} =>
                  \E j \in 1..Len(issued) : issued[j] = obj[i].uid_)
   /\ [][/\ counter' >= counter
         /\ \A t \in Threads :
               (thread[t].pc # "uid_store" /\ thread'[t].pc = "uid_store") =>
                  \A j \in 1..Len(issued) : issued[j] < thread'[t].reg]_vars

\* two connects overlapped: the one that drew the smaller uid stored it last
C25_Witness ==
   /\ Len(issued) >= 2
   /\ issued[1] > issued[2]
   /\ \A t \in Threads : thread[t].pc = "done"
   /\ obj["s"].state_ = "connected"
   /\ obj["c"].state_ = "connected"

\* C26: after a context_t was constructed with a type, status() is not ok
\* whenever a call that allocates the engine configuration or loads the
\* certificate or the key failed, and then ctx_ is null and the SSL_CTX is
\* freed; status() is ok only when no call failed and the SSL_CTX is held.
C26_FailedContextIsNotOk ==
   last.op = "context_t" =>
      /\ last.fails # {} =>
            (nok(last.status) /\ last.in.ctx_ = Null /\ ~last.in.held)
      /\ ok(last.status) =>
            (last.fails = {} /\ last.in.ctx_ # Null /\ last.in.held)

\* the number of bytes the transport took in the send() that just returned:
\* the return value of ::send, or the count SSL_write_ex stored
Accepted ==
   IF "send" \in last.calls \ last.fails THEN last.io
   ELSE IF "SSL_write_ex" \in last.calls /\ last.tls = SSL_ERROR_NONE
   THEN last.io
   ELSE 0

\* C27 (as stated): when the transport accepts 0 < k < len - index bytes,
\* send() returns ok with bytes_sent = k and index advanced by k; after any
\* send() index <= len; a send() that is not ok leaves bytes_sent = 0 and
\* index unchanged.
C27_IndexNeverExceedsLen ==
   last.op = "send" =>
      /\ (0 < Accepted /\ Accepted < last.len - last.index) =>
            /\ ok(last.status)
            /\ last.bytes = Accepted
            /\ last.newindex = last.index + Accepted
      /\ last.newindex <= last.len
      /\ nok(last.status) => (last.bytes = 0 /\ last.newindex = last.index)

\* C27 (amended): the same, with index <= len after the call for every call
\* that was entered with index <= len; a call entered with index > len
\* returns at once and leaves index above len.
C27_IndexStaysWithinLen ==
   last.op = "send" =>
      /\ (0 < Accepted /\ Accepted < last.len - last.index) =>
            /\ ok(last.status)
            /\ last.bytes = Accepted
            /\ last.newindex = last.index + Accepted
      /\ last.index <= last.len => last.newindex <= last.len
      /\ last.index > last.len =>
            (ok(last.status) /\ last.bytes = 0 /\ last.newindex = last.index
             /\ last.calls = {})
      /\ nok(last.status) => (last.bytes = 0 /\ last.newindex = last.index)

\* a plain send() of two bytes of which the transport took one
C27_Witness ==
   /\ last.op = "send"
   /\ "send" \in last.calls
   /\ last.len = 2 /\ last.index = 0
   /\ Accepted = 1
   /\ ok(last.status) /\ last.bytes = 1 /\ last.newindex = 1

\* a TLS send() of two bytes of which the engine took one
C27_WitnessTls ==
   /\ last.op = "send"
   /\ "SSL_write_ex" \in last.calls
   /\ last.len = 2 /\ last.index = 0
   /\ Accepted = 1
   /\ ok(last.status) /\ last.bytes = 1 /\ last.newindex = 1

\* C28: in the loop of send_msg() the bytes the transport took are at every
\* moment the first index bytes of the message, once each and in order, and
\* bytes_sent equals index; when send_msg() returns ok the transport took
\* the whole message and bytes_sent is its size; a would-block never ends
\* the loop, the status it holds when not ok is that of a send() that failed
\* otherwise.  The socket may be plain or TLS.
C28_LoopHandsEveryByteOnce ==
   loop.pc # "ready" =>
      /\ loop.index <= Len(loop.msg)
      /\ loop.handed = SubSeq(loop.msg, 1, loop.index)
      /\ loop.bytes_sent = loop.index
      /\ (loop.pc = "done" /\ ok(loop.status)) =>
            (loop.handed = loop.msg /\ loop.bytes_sent = Len(loop.msg))
      /\ nok(loop.status) => ~would_block(loop.status)

\* send_msg() returned ok for a plain socket after the last of the three
\* bytes went out in a send() of its own
C28_Witness ==
   /\ loop.pc = "done" /\ ok(loop.status)
   /\ obj[loop.id].ssl_ = Null
   /\ loop.msg = Msg(MaxMsg) /\ loop.handed = loop.msg
   /\ last.op = "send" /\ last.index = MaxMsg - 1 /\ last.bytes = 1

\* the same for a TLS socket
C28_WitnessTls ==
   /\ loop.pc = "done" /\ ok(loop.status)
   /\ obj[loop.id].ssl_ # Null
   /\ loop.msg = Msg(MaxMsg) /\ loop.handed = loop.msg
   /\ last.op = "send" /\ last.index = MaxMsg - 1 /\ last.bytes = 1

C30_SplitsOnFirstColon ==
   last.op = "address_resolution" =>
      LET url == last.in.given[1]
          calls == last.in.resolved
      IN IF \E i \in 1..Len(url) : url[i] = ":"
         THEN /\ Len(calls) = 1
              /\ calls[1].host \o <<":">> \o calls[1].port = url
              /\ \A i \in 1..Len(calls[1].host) : calls[1].host[i] # ":"
         ELSE /\ calls = <<>>
              /\ nok(last.status)
              /\ last.status.error_ = WSAEINVAL
              /\ last.in.address_list = last.in.was

\* "h::4" was resolved as host "h" and port ":4", and the answer replaced
\* the list the caller held
C30_Witness ==
   /\ last.op = "address_resolution"
   /\ last.in.given[1] = <<"h", ":", ":", "4">>
   /\ last.in.was = <<3>>
   /\ last.in.resolved = <<[host |-> <<"h">>, port |-> <<":", "4">>]>>
   /\ ok(last.status)
   /\ last.in.address_list = <<1, 2>>

\* "h4" has no colon: invalid argument, no resolver call, the list kept
C30_WitnessNoColon ==
   /\ last.op = "address_resolution"
   /\ last.in.given[1] = <<"h", "4">>
   /\ last.in.resolved = <<>>
   /\ last.status.error_ = WSAEINVAL
   /\ last.in.was = <<3>> /\ last.in.address_list = <<3>>

C32_WouldBlockOnlyForWouldBlockCode ==
   last.op = "status_int" =>
      /\ would_block(last.status) => last.status.error_ = WSAEWOULDBLOCK
      /\ (last.status.error_ \notin {0, WSAEWOULDBLOCK}
          /\ last.in.hint \in {"want_read", "want_write"}) =>
            last.status.code_ = "io"

\* C33: once ::send has failed with the permanent error ECONNRESET inside
\* the loop of send_msg(), the loop ends: send_msg() returns.
C33_PermanentFailureEndsLoop ==
   (Broken /\ loop.pc \in {"loop", "wait"}) ~> (loop.pc = "done")

\* C34: send(), recv() and wait_event() leave every member of every socket
\* (state, handle, uid, mode, TLS session, reference count pointer), every
\* descriptor, every reference count and the uid counter as they were,
\* whatever status they return.
C34_IoChangesNoState ==
   [][last'.op \in {"send", "recv", "wait_event"} =>
         /\ obj' = obj
         /\ fds' = fds
         /\ heap' = heap
         /\ counter' = counter
         /\ live' = live]_vars

\* a recv() that failed with an error other than would-block, and a send()
\* that would block, on a socket that is still connected on its handle
C34_Witness ==
   /\ last.op = "recv" /\ nok(last.status) /\ last.io = -ECONNRESET
   /\ last.pre.state_ = "connected"
   /\ obj[last.id] = last.pre
   /\ fds[obj[last.id].handle_] = "connected"

C34_WitnessWait ==
   /\ last.op = "wait_event" /\ nok(last.status)
   /\ last.pre.state_ = "connected"
   /\ obj[last.id] = last.pre

\* C35: once listen(nonblocking) has returned ok, an accept() with no
\* connection pending returns a would-block-read status, leaves the
\* out_socket as it was and leaves the listener in its state with its
\* handle open.
C35_AcceptWouldBlock ==
   [][(/\ last.op = "listen"
       /\ ok(last.status)
       /\ last.mode = "nonblocking"
       /\ last'.op = "accept"
       /\ ~last'.in.pending)
      => /\ would_block(last'.status)
         /\ want_read(last'.status)
         /\ obj'["c"] = obj["c"]
         /\ obj'[last'.id].state_ = obj[last.id].state_
         /\ obj'[last'.id].handle_ = obj[last.id].handle_
         /\ obj'[last'.id].handle_ # INVALID_SOCKET
         /\ fds'[obj'[last'.id].handle_] # "closed"]_vars

\* C36: wait_event() for recv_ready, send_ready or accept_ready returns ok
\* only if the flags the poll returned include the readiness asked for or
\* hang-up.
C36_OkOnlyWhenReady ==
   (/\ last.op = "wait_event"
    /\ last.in.event \in {"recv_ready", "send_ready", "accept_ready"}
    /\ ok(last.status))
   => (set_events(last.in.event) \cup {"POLLHUP"}) \cap last.in.revents # {}

\* C37: no engine configuration is released twice; two contexts never hold
\* the same configuration and none holds a released one; a configuration
\* that no context holds any more has been released; so once every context
\* is destroyed each allocated configuration was released exactly once.
C37_ReleasedExactlyOnce ==
   /\ \A p \in Confs : contexts.conf[p] # "twice"
   /\ \A i \in contexts.alive : contexts.ctx[i] # Null
          => /\ contexts.conf[contexts.ctx[i]] = "held"
             /\ \A j \in contexts.alive \ {i} : contexts.ctx[j] # contexts.ctx[i]
   /\ \A p \in Confs : contexts.conf[p] = "held"
          => \E i \in contexts.alive : contexts.ctx[i] = p

\* C38: on a socket constructed against a TLS context,
\* verify_peer_certificate() returns true only when the socket is connected
\* and the peer presented a certificate whose verification result is OK.
C38_VerifiedOnlyWhenConnected ==
   (/\ last.op = "verify_peer_certificate"
    /\ last.pre.ctx_ # Null
    /\ last.in.ret)
   => /\ last.pre.state_ = "connected"
      /\ last.in.presented
      /\ last.in.result = X509_V_OK

\* the threads between a lock() that returned and the matching unlock()
LockHolders == {t \in SpinThreads : spin.at[t] = "in"}

\* C39: at most one thread is between a completed lock() and its unlock();
\* the flag is set exactly while some thread is, so a lock() only returns
\* when no other thread holds the lock and the end of a guard's scope
\* releases it; a guard in scope whose constructor has returned holds the
\* lock.
C39_MutualExclusion ==
   /\ Cardinality(LockHolders) <= 1
   /\ spin.flag_ <=> LockHolders # {}
   /\ \A t \in SpinThreads : spin.guard[t] => spin.at[t] # "out"

\* one thread holds the lock through a guard while another spins on it
C39_Witness ==
   \E t \in SpinThreads, u \in SpinThreads :
      /\ spin.at[t] = "in" /\ spin.guard[t]
      /\ spin.at[u] = "yield"

\* a thread holds the lock it took directly while the constructor of
\* another thread's guard is about to test the flag
C39_WitnessDirect ==
   \E t \in SpinThreads, u \in SpinThreads :
      /\ spin.at[t] = "in" /\ ~spin.guard[t]
      /\ spin.at[u] = "test_and_set" /\ spin.guard[u]

(***************************************************************************)
(* Facts about the reachable states that the divergences of C6 and C7     *)
(* rest on: both hold in every reachable state.                           *)
(***************************************************************************)
\* no socket is ever listening or accepting: listen() returns before ::bind
NeverListening ==
   \A i \in ObjIds : obj[i].state_ \notin {"listening", "accepting"}

\* no accept() ever returns ok, so no client is ever handed out
AcceptNeverOk == last.op = "accept" => (nok(last.status) /\ obj["c"] = last.client)

\* without copies no object ever holds a deleted reference count, so no
\* operation of Spec, WaitSpec or StatusSpec reads one
NoDanglingCount == ~Dangling(World)
====
